---- MODULE Spec2Model ----
(***************************************************************************)
(* Workflow validation engine (src/workflow.ts) over the workflow schema    *)
(* (src/unnamed/part_002).                                                  *)
(*                                                                          *)
(* Strings are tuples of one-character strings, so that the substring,      *)
(* prefix, split and index operations of the code are computed and not      *)
(* assumed.  A YAML value is a record [t, s, keys, items]: t is its kind,   *)
(* s the text of a scalar, keys/items the keys and values of a mapping (in  *)
(* document order), items the elements of a list.                           *)
(***************************************************************************)
EXTENDS Integers, Sequences, FiniteSets, TLC

(***************************************************************************)
(* Bounds of the model.                                                     *)
(***************************************************************************)
\* size of a generated workflow document: its jobs plus its steps, all jobs
\* together
MaxSize == 3
\* length of the diagnostic lists handed to the dedup stage on its own
MaxLen == 3
\* calls of getYamlErrors before the one under way
MaxCalls == 2

(***************************************************************************)
(* String literals.                                                         *)
(***************************************************************************)
S_name == <<"n","a","m","e">>
S_on == <<"o","n">>
S_jobs == <<"j","o","b","s">>
S_runs_on == <<"r","u","n","s","-","o","n">>
S_steps == <<"s","t","e","p","s">>
S_uses == <<"u","s","e","s">>
S_run == <<"r","u","n">>
S_with == <<"w","i","t","h">>
S_jobsDot == <<"j","o","b","s",".">>
S_stepsDot == <<"s","t","e","p","s",".">>
S_undefined == <<"u","n","d","e","f","i","n","e","d">>
S_blackduck_inc == <<"b","l","a","c","k","d","u","c","k","-","i","n","c">>
S_build == <<"b","u","i","l","d">>
S_deploy_steps == <<"d","e","p","l","o","y","_","s","t","e","p","s">>
S_CI == <<"C","I">>
S_push == <<"p","u","s","h">>
S_ubuntu_latest == <<"u","b","u","n","t","u","-","l","a","t","e","s","t">>
S_linux_latest == <<"l","i","n","u","x","-","l","a","t","e","s","t">>
S_checkout == <<"a","c","t","i","o","n","s","/","c","h","e","c","k","o","u","t","@","v","4">>
S_scan == <<"b","l","a","c","k","d","u","c","k","-","i","n","c","/","b","l","a","c","k","-","d","u","c","k","-","s","e","c","u","r","i","t","y","-","s","c","a","n","@","v","2">>
S_scanPrefix == <<"b","l","a","c","k","d","u","c","k","-","i","n","c","/","b","l","a","c","k","-","d","u","c","k","-","s","e","c","u","r","i","t","y","-","s","c","a","n","@","v">>
S_echo == <<"e","c","h","o"," ","h","i">>
S_123 == <<"1","2","3">>
S_emptySeq == <<"[","]">>
S_emptyMap == <<"{","}">>
S_pull_request == <<"p","u","l","l","_","r","e","q","u","e","s","t">>
S_workflow_dispatch == <<"w","o","r","k","f","l","o","w","_","d","i","s","p","a","t","c","h">>
S_schedule == <<"s","c","h","e","d","u","l","e">>
S_onPush == <<"o","n",".","p","u","s","h">>
S_onPullRequest == <<"o","n",".","p","u","l","l","_","r","e","q","u","e","s","t">>
S_dotRunsOn == <<".","r","u","n","s","-","o","n">>
S_dotSteps == <<".","s","t","e","p","s">>
S_id == <<"i","d">>
S_oneOf == <<"o","n","e","O","f">>
S_anyOf == <<"a","n","y","O","f">>
S_prTitle == <<"g","i","t","h","u","b",".","e","v","e","n","t",".","p","u","l","l","_","r","e","q","u","e","s","t",".","t","i","t","l","e">>
S_echoTitle == <<"e","c","h","o"," ","$","{","{"," ">> \o S_prTitle \o <<" ","}","}">>
S_github_token == <<"g","i","t","h","u","b","_","t","o","k","e","n">>
S_token == <<"t">>

triggerNames == {S_push, S_pull_request, S_workflow_dispatch, S_schedule}

availableRunners ==
  {<<"w","i","n","d","o","w","s","-","l","a","t","e","s","t">>,
   <<"u","b","u","n","t","u","-","l","a","t","e","s","t">>,
   <<"u","b","u","n","t","u","-","2","4",".","0","4">>,
   <<"u","b","u","n","t","u","-","2","4",".","0","4","-","a","r","m">>,
   <<"u","b","u","n","t","u","-","2","2",".","0","4">>,
   <<"u","b","u","n","t","u","-","2","2",".","0","4","-","a","r","m">>,
   <<"u","b","u","n","t","u","-","2","0",".","0","4">>,
   <<"m","a","c","o","s","-","l","a","t","e","s","t">>,
   <<"m","a","c","o","s","-","l","a","t","e","s","t","-","x","l">>,
   <<"s","e","l","f","-","h","o","s","t","e","d">>,
   <<"x","6","4">>,
   <<"a","r","m">>,
   <<"a","r","m","6","4">>,
   <<"l","i","n","u","x">>,
   <<"m","a","c","o","s">>,
   <<"w","i","n","d","o","w","s">>}
validPushKeys ==
  {<<"b","r","a","n","c","h","e","s">>,
   <<"b","r","a","n","c","h","e","s","-","i","g","n","o","r","e">>,
   <<"p","a","t","h","s">>,
   <<"p","a","t","h","s","-","i","g","n","o","r","e">>,
   <<"t","a","g","s">>,
   <<"t","a","g","s","-","i","g","n","o","r","e">>}
validPullRequestKeys ==
  {<<"b","r","a","n","c","h","e","s">>,
   <<"b","r","a","n","c","h","e","s","-","i","g","n","o","r","e">>,
   <<"p","a","t","h","s">>,
   <<"p","a","t","h","s","-","i","g","n","o","r","e">>,
   <<"t","y","p","e","s">>}

Digits == <<"0","1","2","3","4","5","6","7","8","9">>
Letters == {"a","b","c","d","e","f","g","h","i","j","k","l","m","n","o","p","q","r",
            "s","t","u","v","w","x","y","z","A","B","C","D","E","F","G","H","I","J",
            "K","L","M","N","O","P","Q","R","S","T","U","V","W","X","Y","Z"}

(***************************************************************************)
(* String operations of the JavaScript runtime, on tuples of characters.    *)
(***************************************************************************)
IsDigit(c) == \E d \in 1..10 : Digits[d] = c

\* String.prototype.startsWith
StartsWith(s, p) == Len(p) <= Len(s) /\ SubSeq(s, 1, Len(p)) = p

\* String.prototype.indexOf: 0-based offset of the first occurrence, or -1
IndexOf(s, p) ==
  LET at == {i \in 0..(Len(s) - Len(p)) : SubSeq(s, i + 1, i + Len(p)) = p}
  IN  IF at = {} THEN -1 ELSE CHOOSE i \in at : \A j \in at : i <= j

\* String.prototype.includes
Includes(s, p) == IndexOf(s, p) # -1

\* String.prototype.trim (the only white space of the documents is the blank)
RECURSIVE TrimStart(_)
TrimStart(s) == IF s # <<>> /\ Head(s) = " " THEN TrimStart(Tail(s)) ELSE s
RECURSIVE TrimEnd(_)
TrimEnd(s) ==
  IF s # <<>> /\ s[Len(s)] = " " THEN TrimEnd(SubSeq(s, 1, Len(s) - 1)) ELSE s
Trim(s) == TrimEnd(TrimStart(s))

\* String.prototype.split(sep) for a one-character separator
RECURSIVE Split(_, _)
Split(s, sep) ==
  LET at == {i \in 1..Len(s) : s[i] = sep}
  IN  IF at = {} THEN <<s>>
      ELSE LET i == CHOOSE k \in at : \A j \in at : k <= j
           IN  <<SubSeq(s, 1, i - 1)>> \o Split(SubSeq(s, i + 1, Len(s)), sep)

\* String.prototype.replace(/\//g, '.') and the like: every c becomes d
ReplaceAll(s, c, d) == [i \in 1..Len(s) |-> IF s[i] = c THEN d ELSE s[i]]

DigitValue(c) == (CHOOSE d \in 1..10 : Digits[d] = c) - 1

\* Number.parseInt of a run of decimal digits
RECURSIVE ParseDigits(_, _)
ParseDigits(s, acc) ==
  IF s = <<>> \/ ~IsDigit(Head(s)) THEN acc
  ELSE ParseDigits(Tail(s), 10 * acc + DigitValue(Head(s)))

\* `${n}` for a non-negative integer
RECURSIVE NumToStr(_)
NumToStr(n) ==
  IF n < 10 THEN <<Digits[n + 1]>>
  ELSE NumToStr(n \div 10) \o <<Digits[(n % 10) + 1]>>

(***************************************************************************)
(* YAML values, as yaml.load returns them.                                  *)
(***************************************************************************)
Undefined == [t |-> "undefined", s |-> <<>>, keys |-> <<>>, items |-> <<>>]
Null == [t |-> "null", s |-> <<>>, keys |-> <<>>, items |-> <<>>]
Str(s) == [t |-> "string", s |-> s, keys |-> <<>>, items |-> <<>>]
Num(s) == [t |-> "number", s |-> s, keys |-> <<>>, items |-> <<>>]
Arr(items) == [t |-> "array", s |-> <<>>, keys |-> <<>>, items |-> items]
Obj(keys, items) == [t |-> "object", s |-> <<>>, keys |-> keys, items |-> items]

\* obj[key]: the value of a key of a mapping, undefined when it has none
HasKey(v, key) == v.t = "object" /\ \E i \in 1..Len(v.keys) : v.keys[i] = key
Get(v, key) ==
  IF HasKey(v, key)
  THEN v.items[CHOOSE i \in 1..Len(v.keys) : v.keys[i] = key]
  ELSE Undefined

\* the typeof operator
TypeOf(v) ==
  CASE v.t = "undefined" -> "undefined"
    [] v.t = "string" -> "string"
    [] v.t = "number" -> "number"
    [] v.t = "boolean" -> "boolean"
    [] OTHER -> "object"

\* truthiness of a value (!v is its negation)
Truthy(v) ==
  CASE v.t \in {"undefined", "null"} -> FALSE
    [] v.t = "string" -> v.s # <<>>
    [] v.t = "number" -> v.s # <<"0">>
    [] OTHER -> TRUE

(***************************************************************************)
(* The input documents.  A document is its text, as the list of its lines   *)
(* (yamlText.split('\n')), together with what yaml.load makes of it: a      *)
(* value, or a YAMLException with or without a mark.  The workflow          *)
(* documents are written out in block style from a small description:       *)
(* whether `on` is present, which jobs there are and, for each job, whether *)
(* it is an empty entry (null), its runs-on label and its steps.            *)
(***************************************************************************)
StepKinds == {"checkout", "scan", "run", "runTitle", "both", "usesNull", "usesNum"}
RunsOnKinds == {"absent", "known", "unknown"}
JobNameLists == {<<>>, <<S_build>>, <<S_deploy_steps>>, <<S_build, S_deploy_steps>>}

StepSeqs(n) == UNION {[1..k -> StepKinds] : k \in 0..n}

NullJob == [kind |-> "null", runsOn |-> "absent", hasSteps |-> FALSE, steps |-> <<>>]
JobCfgs(n) ==
  {NullJob} \cup
  {[kind |-> "object", runsOn |-> r, hasSteps |-> FALSE, steps |-> <<>>] :
     r \in RunsOnKinds} \cup
  {[kind |-> "object", runsOn |-> r, hasSteps |-> TRUE, steps |-> s] :
     r \in RunsOnKinds, s \in StepSeqs(n)}

\* the lists of job descriptions for the given names, at most n steps in all
RECURSIVE JobCfgLists(_, _)
JobCfgLists(k, n) ==
  IF k = 0 THEN {<<>>}
  ELSE UNION {{<<c>> \o rest : rest \in JobCfgLists(k - 1, n - Len(c.steps))} :
                c \in JobCfgs(n)}

WorkflowCfgs ==
  UNION {{[hasOn |-> o, hasJobs |-> TRUE, names |-> ns, jobs |-> js] :
            o \in BOOLEAN, js \in JobCfgLists(Len(ns), MaxSize - Len(ns))} :
           ns \in JobNameLists}
  \cup {[hasOn |-> o, hasJobs |-> FALSE, names |-> <<>>, jobs |-> <<>>] : o \in BOOLEAN}

RunsOnLabel(r) == IF r = "known" THEN S_ubuntu_latest ELSE S_linux_latest

\* the parsed value of a step, a job and a workflow description
StepValue(k) ==
  CASE k = "checkout" -> Obj(<<S_uses>>, <<Str(S_checkout)>>)
    [] k = "scan" -> Obj(<<S_uses, S_with>>,
                         <<Str(S_scan), Obj(<<S_github_token>>, <<Str(S_token)>>)>>)
    [] k = "runTitle" -> Obj(<<S_run>>, <<Str(S_echoTitle)>>)
    [] k = "run" -> Obj(<<S_run>>, <<Str(S_echo)>>)
    [] k = "both" -> Obj(<<S_uses, S_run>>, <<Str(S_checkout), Str(S_echo)>>)
    [] k = "usesNull" -> Obj(<<S_uses>>, <<Null>>)
    [] k = "usesNum" -> Obj(<<S_uses>>, <<Num(S_123)>>)

JobValue(c) ==
  IF c.kind = "null" THEN Null
  ELSE Obj((IF c.runsOn = "absent" THEN <<>> ELSE <<S_runs_on>>)
             \o (IF c.hasSteps THEN <<S_steps>> ELSE <<>>),
           (IF c.runsOn = "absent" THEN <<>> ELSE <<Str(RunsOnLabel(c.runsOn))>>)
             \o (IF c.hasSteps
                 THEN <<Arr([i \in 1..Len(c.steps) |-> StepValue(c.steps[i])])>>
                 ELSE <<>>))

WorkflowValue(w) ==
  Obj(<<S_name>> \o (IF w.hasOn THEN <<S_on>> ELSE <<>>)
        \o (IF w.hasJobs THEN <<S_jobs>> ELSE <<>>),
      <<Str(S_CI)>> \o (IF w.hasOn THEN <<Str(S_push)>> ELSE <<>>)
        \o (IF w.hasJobs
            THEN <<Obj(w.names, [i \in 1..Len(w.jobs) |-> JobValue(w.jobs[i])])>>
            ELSE <<>>))

\* the text of a step, a job and a workflow description, line by line
Spaces(n) == [i \in 1..n |-> " "]
KeyLine(indent, key, value) ==
  Spaces(indent) \o key \o <<":">> \o (IF value = <<>> THEN <<>> ELSE <<" ">> \o value)
ItemLine(indent, key, value) ==
  Spaces(indent) \o <<"-", " ">> \o key \o <<":">>
    \o (IF value = <<>> THEN <<>> ELSE <<" ">> \o value)

StepLines(k) ==
  CASE k = "checkout" -> <<ItemLine(6, S_uses, S_checkout)>>
    [] k = "scan" -> <<ItemLine(6, S_uses, S_scan), KeyLine(8, S_with, <<>>),
                       KeyLine(10, S_github_token, S_token)>>
    [] k = "runTitle" -> <<ItemLine(6, S_run, S_echoTitle)>>
    [] k = "run" -> <<ItemLine(6, S_run, S_echo)>>
    [] k = "both" -> <<ItemLine(6, S_uses, S_checkout), KeyLine(8, S_run, S_echo)>>
    [] k = "usesNull" -> <<ItemLine(6, S_uses, <<>>)>>
    [] k = "usesNum" -> <<ItemLine(6, S_uses, S_123)>>

RECURSIVE StepsLines(_)
StepsLines(steps) ==
  IF steps = <<>> THEN <<>> ELSE StepLines(Head(steps)) \o StepsLines(Tail(steps))

JobLines(name, c) ==
  IF c.kind = "null" THEN <<KeyLine(2, name, <<>>)>>
  ELSE IF c.runsOn = "absent" /\ ~c.hasSteps THEN <<KeyLine(2, name, S_emptyMap)>>
  ELSE <<KeyLine(2, name, <<>>)>>
       \o (IF c.runsOn = "absent" THEN <<>>
           ELSE <<KeyLine(4, S_runs_on, RunsOnLabel(c.runsOn))>>)
       \o (IF ~c.hasSteps THEN <<>>
           ELSE IF c.steps = <<>> THEN <<KeyLine(4, S_steps, S_emptySeq)>>
           ELSE <<KeyLine(4, S_steps, <<>>)>> \o StepsLines(c.steps))

RECURSIVE JobsLines(_, _)
JobsLines(names, jobs) ==
  IF names = <<>> THEN <<>>
  ELSE JobLines(Head(names), Head(jobs)) \o JobsLines(Tail(names), Tail(jobs))

WorkflowLines(w) ==
  <<KeyLine(0, S_name, S_CI)>>
  \o (IF w.hasOn THEN <<KeyLine(0, S_on, S_push)>> ELSE <<>>)
  \o (IF ~w.hasJobs THEN <<>>
      ELSE IF w.names = <<>> THEN <<KeyLine(0, S_jobs, S_emptyMap)>>
      ELSE <<KeyLine(0, S_jobs, <<>>)>> \o JobsLines(w.names, w.jobs))

Loaded(lines, value) ==
  [lines |-> lines, ok |-> TRUE, value |-> value, hasMark |-> FALSE,
   markLine |-> 0, markColumn |-> 0]
Unparseable(lines, hasMark, l, c) ==
  [lines |-> lines, ok |-> FALSE, value |-> Undefined, hasMark |-> hasMark,
   markLine |-> l, markColumn |-> c]

\* documents yaml.load rejects (an unclosed flow sequence); the mark of the
\* exception, when it has one, is whatever position the parser reports
BrokenLines == <<S_name \o <<":", " ", "[">> >>
SyntaxErrorDocs ==
  {Unparseable(BrokenLines, TRUE, l, c) : l \in 0..1, c \in 0..1}
  \cup {Unparseable(BrokenLines, FALSE, 0, 0)}

\* documents whose root is not a mapping: empty, scalars, a list
NonMappingDocs ==
  {Loaded(<< <<>> >>, Undefined),
   Loaded(<< <<"#", " ", "x">> >>, Undefined),
   Loaded(<< <<"~">> >>, Null),
   Loaded(<< S_CI >>, Str(S_CI)),
   Loaded(<< <<"0">> >>, Num(<<"0">>)),
   Loaded(<< S_123 >>, Num(S_123)),
   Loaded(<< <<"-", " ">> \o S_push, <<"-", " ">> \o S_CI >>,
          Arr(<<Str(S_push), Str(S_CI)>>)),
   Loaded(<< <<"-", " ">> \o S_name \o <<":", " ">> \o S_CI >>,
          Arr(<<Obj(<<S_name>>, <<Str(S_CI)>>)>>))}

WorkflowDoc(w) == Loaded(WorkflowLines(w), WorkflowValue(w))


(***************************************************************************)
(* buildLocationMap: path -> {line, column, path}, by text search.          *)
(***************************************************************************)
IsIndexPart(p) == p # <<>> /\ \A i \in 1..Len(p) : IsDigit(p[i])

\* keyPath.match(/steps\.(\d+)/): the number after the first "steps." that a
\* digit follows, or -1 when there is no match
StepMatch(keyPath) ==
  LET at == {i \in 0..(Len(keyPath) - 7) :
               /\ SubSeq(keyPath, i + 1, i + 6) = S_stepsDot
               /\ IsDigit(keyPath[i + 7])}
  IN  IF at = {} THEN -1
      ELSE LET i == CHOOSE k \in at : \A j \in at : k <= j
           IN  ParseDigits(SubSeq(keyPath, i + 7, Len(keyPath)), 0)

\* the first line, from line i on, that findKeyLocation returns for lastKey
RECURSIVE FindFrom(_, _, _, _)
FindFrom(lines, i, keyPath, lastKey) ==
  IF i > Len(lines) THEN [line |-> 1, column |-> 1, path |-> keyPath]
  ELSE LET line == lines[i]
           trimmed == Trim(line)
           pattern == lastKey \o <<":">>
       IN  IF trimmed = <<>> \/ StartsWith(trimmed, <<"#">>)
           THEN FindFrom(lines, i + 1, keyPath, lastKey)
           ELSE IF Includes(trimmed, pattern) /\ IndexOf(line, pattern) # -1
           THEN [line |-> i, column |-> IndexOf(line, pattern) + 1, path |-> keyPath]
           ELSE IF /\ StartsWith(trimmed, <<"-">>)
                   /\ Includes(keyPath, S_steps)
                   /\ StepMatch(keyPath) = 0
           THEN [line |-> i, column |-> IndexOf(line, <<"-">>) + 1, path |-> keyPath]
           ELSE FindFrom(lines, i + 1, keyPath, lastKey)

findKeyLocation(lines, keyPath) ==
  LET pathParts == SelectSeq(Split(keyPath, "."),
                             LAMBDA p : p # <<>> /\ ~IsIndexPart(p))
      lastKey == IF pathParts = <<>> THEN S_undefined ELSE pathParts[Len(pathParts)]
  IN  FindFrom(lines, 1, keyPath, lastKey)

\* the paths traverse visits below obj, which is at currentPath
RECURSIVE traverse(_, _)
traverse(obj, currentPath) ==
  IF obj.t = "array"
  THEN UNION {LET arrayPath == currentPath \o <<".">> \o NumToStr(i - 1)
              IN  {arrayPath} \cup traverse(obj.items[i], arrayPath) :
                i \in 1..Len(obj.items)}
  ELSE IF obj.t = "object"
  THEN UNION {LET fullPath == IF currentPath # <<>>
                              THEN currentPath \o <<".">> \o obj.keys[i]
                              ELSE obj.keys[i]
              IN  {fullPath} \cup traverse(obj.items[i], fullPath) :
                i \in 1..Len(obj.keys)}
  ELSE {}

buildLocationMap(lines, obj) ==
  [p \in traverse(obj, <<>>) |-> findKeyLocation(lines, p)]

\* locationMap.get(path) || { line: 1, column: 1, path }
LocationOf(locationMap, path) ==
  IF path \in DOMAIN locationMap THEN locationMap[path]
  ELSE [line |-> 1, column |-> 1, path |-> path]

(***************************************************************************)
(* Diagnostics.  A message is the template it is built from and the values  *)
(* put into it (a string a and a number n); an absent line, column or path  *)
(* is Absent / NoPath.                                                      *)
(***************************************************************************)
Absent == -1
NoPath == <<"?">>
Msg(id, a, n) == [id |-> id, a |-> a, n |-> n]
Diagnostic(type, message, line, column, path, severity) ==
  [type |-> type, message |-> message, line |-> line, column |-> column,
   path |-> path, severity |-> severity]

(***************************************************************************)
(* The schema validator: validate = ajv.compile(workflowSchema) with        *)
(* allErrors and verbose.  An error carries the instancePath, the keyword,  *)
(* the tail of the schemaPath (from the outermost oneOf on), the            *)
(* missingProperty or expected type of its params, and the data it is       *)
(* about.  The errors of a value come in the order Ajv evaluates the        *)
(* keywords of its schema: the keywords for every type (not, oneOf, allOf)  *)
(* first, then those of arrays (minItems, items, contains), then those of   *)
(* objects (minProperties, required, properties, patternProperties), the    *)
(* error of a wrong type in place of the keywords of its type.  The errors  *)
(* of the branches of a failing oneOf and of the items of a failing         *)
(* contains are kept; those of a passing one are dropped.                   *)
(***************************************************************************)
AjvError(instancePath, keyword, schemaPath, missingProperty, type, data) ==
  [instancePath |-> instancePath, keyword |-> keyword, schemaPath |-> schemaPath,
   missingProperty |-> missingProperty, type |-> type, propertyName |-> <<>>,
   data |-> data]

TypeError(path, schemaPath, type, data) ==
  AjvError(path, "type", schemaPath \o <<"/","t","y","p","e">>, <<>>, type, data)
RequiredError(path, schemaPath, prop, data) ==
  AjvError(path, "required", schemaPath \o <<"/","r","e","q","u","i","r","e","d">>,
           prop, "", data)
KeywordError(path, keyword, schemaPath, data) ==
  AjvError(path, keyword, schemaPath, <<>>, "", data)

Child(path, key) == path \o <<"/">> \o key

\* the concatenation of a sequence of sequences
RECURSIVE Flatten(_)
Flatten(ss) == IF ss = <<>> THEN <<>> ELSE Head(ss) \o Flatten(Tail(ss))

\* '^[a-zA-Z_][a-zA-Z0-9_-]*$', the pattern of the job names
MatchesJobName(k) ==
  /\ k # <<>>
  /\ k[1] \in Letters \cup {"_"}
  /\ \A i \in 2..Len(k) : k[i] \in Letters \cup {"_", "-"} \/ IsDigit(k[i])

\* properties.name: a string of at least one character
ValidateName(path, v) ==
  IF v.t # "string" THEN <<TypeError(path, <<"#">>, "string", v)>>
  ELSE IF Len(v.s) < 1 THEN <<KeywordError(path, "minLength", <<"#">>, v)>>
  ELSE <<>>

\* a trigger of the object form of `on`: null or an object (the documents of
\* the model give the triggers no sub-keys, so none is validated here)
ValidateTrigger(path, v) ==
  IF v.t \in {"null", "object"} THEN <<>>
  ELSE <<TypeError(path, <<"#","/">> \o S_oneOf \o <<"/","0">>, "null", v),
         TypeError(path, <<"#","/">> \o S_oneOf \o <<"/","1">>, "object", v),
         KeywordError(path, "oneOf", <<"#","/">> \o S_oneOf, v)>>

\* properties.on: one of a trigger name, a list of strings, an object
ValidateOn(path, v) ==
  LET sp(i) == <<"#","/">> \o S_oneOf \o <<"/">> \o NumToStr(i)
      asString ==
        (IF v.t # "string" THEN <<TypeError(path, sp(0), "string", v)>> ELSE <<>>)
        \o (IF v.t = "string" /\ v.s \in triggerNames THEN <<>>
            ELSE <<KeywordError(path, "enum", sp(0), v)>>)
      asArray ==
        IF v.t # "array" THEN <<TypeError(path, sp(1), "array", v)>>
        ELSE (IF Len(v.items) < 1
              THEN <<KeywordError(path, "minItems", sp(1), v)>> ELSE <<>>)
             \o Flatten([i \in 1..Len(v.items) |->
                  IF v.items[i].t # "string"
                  THEN <<TypeError(Child(path, NumToStr(i - 1)), sp(1), "string",
                                   v.items[i])>>
                  ELSE <<>>])
      asObject ==
        IF v.t # "object" THEN <<TypeError(path, sp(2), "object", v)>>
        ELSE (IF Len(v.keys) < 1
              THEN <<KeywordError(path, "minProperties", sp(2), v)>> ELSE <<>>)
             \o Flatten([i \in 1..Len(v.keys) |->
                  IF v.keys[i] \in {S_push, S_pull_request, S_workflow_dispatch}
                  THEN ValidateTrigger(Child(path, v.keys[i]), v.items[i])
                  ELSE <<>>])
      passing == Cardinality({b \in {1, 2, 3} :
                    (CASE b = 1 -> asString [] b = 2 -> asArray [] b = 3 -> asObject)
                      = <<>>})
  IN  IF passing = 1 THEN <<>>
      ELSE asString \o asArray \o asObject
           \o <<KeywordError(path, "oneOf", <<"#","/">> \o S_oneOf, v)>>

\* jobs.*.runs-on: one of a non-empty string, a non-empty list of them
ValidateRunsOn(path, v) ==
  LET sp(i) == <<"#","/">> \o S_oneOf \o <<"/">> \o NumToStr(i)
      asString ==
        IF v.t # "string" THEN <<TypeError(path, sp(0), "string", v)>>
        ELSE IF Len(v.s) < 1 THEN <<KeywordError(path, "minLength", sp(0), v)>>
        ELSE <<>>
      asArray ==
        IF v.t # "array" THEN <<TypeError(path, sp(1), "array", v)>>
        ELSE (IF Len(v.items) < 1
              THEN <<KeywordError(path, "minItems", sp(1), v)>> ELSE <<>>)
             \o Flatten([i \in 1..Len(v.items) |->
                  IF v.items[i].t # "string"
                  THEN <<TypeError(Child(path, NumToStr(i - 1)), sp(1), "string",
                                   v.items[i])>>
                  ELSE IF Len(v.items[i].s) < 1
                  THEN <<KeywordError(Child(path, NumToStr(i - 1)), "minLength",
                                      sp(1), v.items[i])>>
                  ELSE <<>>])
  IN  IF (asString = <<>>) # (asArray = <<>>) THEN <<>>
      ELSE asString \o asArray
           \o <<KeywordError(path, "oneOf", <<"#","/">> \o S_oneOf, v)>>

\* steps.items: exactly one of `uses` and `run`, then the types of both
ValidateStep(path, v) ==
  LET sp(i) == <<"#","/">> \o S_oneOf \o <<"/">> \o NumToStr(i)
      branch(i, want, other) ==
        (IF v.t # "object" \/ HasKey(v, other)
         THEN <<KeywordError(path, "not", sp(i) \o <<"/","n","o","t">>, v)>>
         ELSE <<>>)
        \o (IF v.t = "object" /\ ~HasKey(v, want)
            THEN <<RequiredError(path, sp(i), want, v)>> ELSE <<>>)
      b0 == branch(0, S_uses, S_run)
      b1 == branch(1, S_run, S_uses)
      oneOf == IF (b0 = <<>>) # (b1 = <<>>) THEN <<>>
               ELSE b0 \o b1
                    \o <<KeywordError(path, "oneOf", <<"#","/">> \o S_oneOf, v)>>
      stringProperty(key) ==
        IF HasKey(v, key) /\ Get(v, key).t # "string"
        THEN <<TypeError(Child(path, key), <<"#">>, "string", Get(v, key))>>
        ELSE <<>>
  IN  oneOf
      \o (IF v.t # "object" THEN <<TypeError(path, <<"#">>, "object", v)>>
          ELSE stringProperty(S_uses) \o stringProperty(S_run))

\* steps.allOf[0].contains: an object whose `uses` is a string that starts
\* with 'blackduck-inc/black-duck-security-scan@v'
ValidateScanStep(path, v) ==
  IF v.t # "object" THEN <<TypeError(path, <<"#">>, "object", v)>>
  ELSE IF ~HasKey(v, S_uses) THEN <<RequiredError(path, <<"#">>, S_uses, v)>>
  ELSE LET uses == Get(v, S_uses)
       IN  IF uses.t # "string"
           THEN <<TypeError(Child(path, S_uses), <<"#">>, "string", uses)>>
           ELSE IF ~StartsWith(uses.s, S_scanPrefix)
           THEN <<KeywordError(Child(path, S_uses), "pattern", <<"#">>, uses)>>
           ELSE <<>>

\* jobs.*.steps: a list of at least one step that contains a scan step
ValidateSteps(path, v) ==
  IF v.t # "array" THEN <<TypeError(path, <<"#">>, "array", v)>>
  ELSE LET item(i) == Child(path, NumToStr(i - 1))
           scans == [i \in 1..Len(v.items) |-> ValidateScanStep(item(i), v.items[i])]
           contains ==
             IF \E i \in 1..Len(v.items) : scans[i] = <<>> THEN <<>>
             ELSE Flatten(scans) \o <<KeywordError(path, "contains", <<"#">>, v)>>
       IN  contains
           \o (IF Len(v.items) < 1
               THEN <<KeywordError(path, "minItems", <<"#">>, v)>> ELSE <<>>)
           \o Flatten([i \in 1..Len(v.items) |-> ValidateStep(item(i), v.items[i])])

\* jobs.<name>: an object with `runs-on`
ValidateJob(path, v) ==
  IF v.t # "object" THEN <<TypeError(path, <<"#">>, "object", v)>>
  ELSE (IF ~HasKey(v, S_runs_on)
        THEN <<RequiredError(path, <<"#">>, S_runs_on, v)>> ELSE <<>>)
       \o (IF HasKey(v, S_runs_on)
           THEN ValidateRunsOn(Child(path, S_runs_on), Get(v, S_runs_on)) ELSE <<>>)
       \o (IF HasKey(v, S_steps)
           THEN ValidateSteps(Child(path, S_steps), Get(v, S_steps)) ELSE <<>>)

\* properties.jobs: an object of at least one job; only the jobs whose name
\* matches the pattern are validated
ValidateJobs(path, v) ==
  IF v.t # "object" THEN <<TypeError(path, <<"#">>, "object", v)>>
  ELSE (IF Len(v.keys) < 1
        THEN <<KeywordError(path, "minProperties", <<"#">>, v)>> ELSE <<>>)
       \o Flatten([i \in 1..Len(v.keys) |->
            IF MatchesJobName(v.keys[i])
            THEN ValidateJob(Child(path, v.keys[i]), v.items[i]) ELSE <<>>])

\* validate(parsedYaml): the errors of the root, validate.errors
workflowSchema(v) ==
  IF v.t # "object" THEN <<TypeError(<<>>, <<"#">>, "object", v)>>
  ELSE Flatten([i \in 1..3 |->
         LET key == <<S_name, S_on, S_jobs>>[i]
         IN  IF HasKey(v, key) THEN <<>>
             ELSE <<RequiredError(<<>>, <<"#">>, key, v)>>])
       \o (IF HasKey(v, S_name)
           THEN ValidateName(Child(<<>>, S_name), Get(v, S_name)) ELSE <<>>)
       \o (IF HasKey(v, S_on)
           THEN ValidateOn(Child(<<>>, S_on), Get(v, S_on)) ELSE <<>>)
       \o (IF HasKey(v, S_jobs)
           THEN ValidateJobs(Child(<<>>, S_jobs), Get(v, S_jobs)) ELSE <<>>)


(***************************************************************************)
(* convertAjvError: one schema error to a diagnostic, to null, or to the    *)
(* TypeError of calling includes on a value that has none.                  *)
(***************************************************************************)
NoDiagnostic == Diagnostic("", Msg("", <<>>, 0), Absent, Absent, NoPath, "")
Converted(d) == [kind |-> "diagnostic", diagnostic |-> d]
ConvertedNull == [kind |-> "null", diagnostic |-> NoDiagnostic]
ConvertThrows == [kind |-> "throw", diagnostic |-> NoDiagnostic]

\* a[i] of a split path (i from 0), the text of undefined when there is none
PartAt(parts, i) == IF i + 1 <= Len(parts) THEN parts[i + 1] ELSE S_undefined

\* Number.parseInt(stepIndex) + 1; NaN when stepIndex starts with no digit
NaN == -1
StepNumber(stepIndex) ==
  IF stepIndex # <<>> /\ IsDigit(stepIndex[1]) THEN ParseDigits(stepIndex, 0) + 1
  ELSE NaN

\* error.data?.includes('blackduck-inc'): "throw" when data has no includes
DataIncludes(data, s) ==
  CASE data.t \in {"undefined", "null"} -> "false"
    [] data.t = "string" -> IF Includes(data.s, s) THEN "true" ELSE "false"
    [] data.t = "array" ->
         IF \E i \in 1..Len(data.items) : data.items[i] = Str(s)
         THEN "true" ELSE "false"
    [] OTHER -> "throw"

convertAjvError(error, locationMap) ==
  LET stripped == IF error.instancePath # <<>> /\ Head(error.instancePath) = "/"
                  THEN Tail(error.instancePath) ELSE error.instancePath
      path == ReplaceAll(stripped, "/", ".")
      location == LocationOf(locationMap, path)
      parts == Split(path, ".")
      jobName == PartAt(parts, 1)
      stepIndex == PartAt(parts, 3)
      at(type, message, p) ==
        Converted(Diagnostic(type, message, location.line, location.column, p,
                             "error"))
  IN
  \* Root level errors
  IF /\ error.instancePath = <<>>
     /\ error.keyword = "required"
     /\ error.missingProperty = S_on
  THEN Converted(Diagnostic("missing-field", Msg("Missing required field 'on'", <<>>, 0),
                            1, 1, S_on, "error"))
  ELSE IF error.instancePath = <<>> /\ error.keyword = "required"
  THEN at("missing-field", Msg("Missing required field", error.missingProperty, 0),
          error.missingProperty)
  ELSE IF /\ error.instancePath = <<>>
          /\ error.keyword = "anyOf"
          /\ Includes(error.schemaPath, S_anyOf)
  THEN at("configuration", Msg("Workflow must contain a scan step", <<>>, 0), S_jobs)
  \* Trigger configuration errors
  ELSE IF path = S_on /\ error.keyword = "oneOf"
  THEN at("invalid-value", Msg("Invalid trigger configuration", <<>>, 0), S_on)
  \* Job-specific errors
  ELSE IF /\ Includes(path, S_jobsDot) /\ ~Includes(path, S_steps)
          /\ error.keyword = "required" /\ error.missingProperty = S_runs_on
  THEN at("runner-label", Msg("Job requires 'runs-on' field", jobName, 0),
          path \o S_dotRunsOn)
  ELSE IF /\ Includes(path, S_jobsDot) /\ ~Includes(path, S_steps)
          /\ error.keyword = "required" /\ error.missingProperty = S_steps
  THEN at("structure", Msg("Job requires at least one step", jobName, 0),
          path \o S_dotSteps)
  ELSE IF /\ Includes(path, S_jobsDot) /\ ~Includes(path, S_steps)
          /\ error.keyword = "minItems" /\ Includes(path, S_steps)
  THEN at("structure", Msg("Job must contain at least one step", jobName, 0),
          path \o S_dotSteps)
  \* Step-specific errors
  ELSE IF /\ Includes(path, S_steps)
          /\ error.keyword = "oneOf" /\ Includes(error.schemaPath, S_oneOf)
  THEN at("structure",
          Msg("Step must have either 'uses' or 'run'", jobName, StepNumber(stepIndex)),
          path)
  ELSE IF /\ Includes(path, S_steps)
          /\ error.keyword = "pattern" /\ error.propertyName = S_id
  THEN at("invalid-value", Msg("Step ID must start with letter/underscore", <<>>, 0),
          path)
  ELSE IF /\ Includes(path, S_steps)
          /\ error.keyword = "pattern" /\ Includes(path, S_uses)
  THEN at("action", Msg("Invalid action format", <<>>, 0), path)
  \* Black Duck specific errors
  ELSE IF Includes(path, S_uses) /\ DataIncludes(error.data, S_blackduck_inc) = "throw"
  THEN ConvertThrows
  ELSE IF Includes(path, S_uses) /\ DataIncludes(error.data, S_blackduck_inc) = "true"
  THEN at("action", Msg("Provide at least one of the product URL", <<>>, 0), path)
  ELSE IF Includes(path, S_with) /\ error.keyword = "anyOf"
  THEN at("configuration", Msg("Provide at least one of the product URL", <<>>, 0),
          path)
  \* Generic type errors
  ELSE IF error.keyword = "type"
  THEN at("invalid-value", Msg("Expected but got", <<error.type, TypeOf(error.data)>>, 0),
          path)
  ELSE IF error.keyword = "minLength"
  THEN at("invalid-value", Msg("Value cannot be empty", <<>>, 0), path)
  ELSE IF error.keyword = "enum"
  THEN at("invalid-value", Msg("Invalid value", error.data.s, 0), path)
  ELSE ConvertedNull

(***************************************************************************)
(* performAdditionalValidations: the diagnostics of the additional pass,    *)
(* or the TypeError of reading a property of null.                          *)
(***************************************************************************)
\* Object.entries(v) of a mapping, as the indexes of its keys
Entries(v) == IF v.t = "object" THEN 1..Len(v.keys) ELSE {}

\* Check for unknown runner labels: the diagnostic of job i, if any
UnknownRunner(jobs, i, locationMap) ==
  LET jobName == jobs.keys[i]
      runsOn == Get(jobs.items[i], S_runs_on)
      runnerLabel == IF runsOn.t = "string" THEN runsOn
                     ELSE IF runsOn.t = "array" /\ runsOn.items # <<>>
                     THEN runsOn.items[1] ELSE Undefined
      path == S_jobsDot \o jobName \o S_dotRunsOn
      location == LocationOf(locationMap, path)
  IN  IF /\ Truthy(runsOn)
         /\ Truthy(runnerLabel) /\ runnerLabel.t = "string"
         /\ runnerLabel.s \notin availableRunners
      THEN <<Diagnostic("runner-label", Msg("Unknown runner", runnerLabel.s, 0),
                        location.line, location.column, path, "error")>>
      ELSE <<>>

\* Check for unexpected keys in a trigger section
UnexpectedKeys(on, trigger, validKeys, locationMap) ==
  LET section == Get(on, trigger)
  IN  IF section.t \notin {"object", "array"} THEN <<>>
      ELSE Flatten([i \in 1..Len(section.keys) |->
             LET key == section.keys[i]
                 path == S_on \o <<".">> \o trigger \o <<".">> \o key
                 location == LocationOf(locationMap, path)
             IN  IF key \in validKeys THEN <<>>
                 ELSE <<Diagnostic("unexpected-key",
                                   Msg("Unknown key in trigger", trigger \o <<".">> \o key, 0),
                                   location.line, location.column, path, "error")>>])

\* whether the pass throws: jobObj['runs-on'] of a job that is null, or
\* step.uses of a step that is null
AdditionalThrows(workflow) ==
  LET jobs == Get(workflow, S_jobs)
  IN  /\ Truthy(jobs)
      /\ \E i \in Entries(jobs) :
           \/ jobs.items[i].t \in {"null", "undefined"}
           \/ LET steps == Get(jobs.items[i], S_steps)
              IN  /\ steps.t = "array"
                  /\ \E k \in 1..Len(steps.items) :
                       steps.items[k].t \in {"null", "undefined"}

\* Check for potentially untrusted expressions: the diagnostics of one string
untrustedPatterns ==
  <<<<"g","i","t","h","u","b",".","e","v","e","n","t",".","h","e","a","d","_","c","o","m","m","i","t",".","m","e","s","s","a","g","e">>,
    S_prTitle,
    <<"g","i","t","h","u","b",".","e","v","e","n","t",".","p","u","l","l","_","r","e","q","u","e","s","t",".","b","o","d","y">>,
    <<"g","i","t","h","u","b",".","e","v","e","n","t",".","i","s","s","u","e",".","t","i","t","l","e">>,
    <<"g","i","t","h","u","b",".","e","v","e","n","t",".","i","s","s","u","e",".","b","o","d","y">>,
    <<"g","i","t","h","u","b",".","e","v","e","n","t",".","c","o","m","m","e","n","t",".","b","o","d","y">>>>

checkUntrustedExpressions(value, path, locationMap) ==
  LET location == LocationOf(locationMap, path)
  IN  Flatten([i \in 1..Len(untrustedPatterns) |->
        IF Includes(value, untrustedPatterns[i])
        THEN <<Diagnostic("expression", Msg("Potentially unsafe", untrustedPatterns[i], 0),
                          location.line, location.column, path, "warning")>>
        ELSE <<>>])

\* Check for unknown action inputs: no action is listed (every entry of the
\* table is commented out)
knownActionInputs == {}

UnknownInputs(jobName, stepIndex, step, locationMap) ==
  LET uses == Get(step, S_uses)
      with == Get(step, S_with)
      base == S_jobsDot \o jobName \o <<".">> \o S_stepsDot \o NumToStr(stepIndex)
                \o <<".">> \o S_with \o <<".">>
  IN  IF /\ Truthy(uses) /\ Truthy(with)
         /\ \E key \in knownActionInputs : StartsWith(uses.s, Split(key, "@")[1])
      THEN Flatten([i \in 1..Len(with.keys) |->
             LET path == base \o with.keys[i]
                 location == LocationOf(locationMap, path)
             IN  <<Diagnostic("unknown-input", Msg("Unknown input", with.keys[i], 0),
                              location.line, location.column, path, "error")>>])
      ELSE <<>>

\* Check expressions in all string values: the walk reaches every string of
\* the step and reports nothing, the call of the expression check being
\* commented out
RECURSIVE checkStrings(_, _, _)
checkStrings(obj, basePath, locationMap) ==
  IF obj.t = "string" THEN <<>>
  ELSE IF Truthy(obj) /\ TypeOf(obj) = "object"
  THEN Flatten([i \in 1..Len(obj.items) |->
         checkStrings(obj.items[i],
                      basePath \o <<".">>
                        \o (IF obj.t = "array" THEN NumToStr(i - 1) ELSE obj.keys[i]),
                      locationMap)])
  ELSE <<>>

\* Validate action inputs and expressions: the diagnostics of the steps of
\* job i
StepChecks(jobs, i, locationMap) ==
  LET jobName == jobs.keys[i]
      steps == Get(jobs.items[i], S_steps)
  IN  IF Truthy(steps) /\ steps.t = "array"
      THEN Flatten([k \in 1..Len(steps.items) |->
             UnknownInputs(jobName, k - 1, steps.items[k], locationMap)
               \o checkStrings(steps.items[k],
                               S_jobsDot \o jobName \o <<".">> \o S_stepsDot
                                 \o NumToStr(k - 1),
                               locationMap)])
      ELSE <<>>

\* a pass that reports its unknown runners as warnings
AdditionalAsWarnings(workflow, locationMap) ==
  LET jobs == Get(workflow, S_jobs)
      found == IF Truthy(jobs) /\ jobs.t = "object"
               THEN Flatten([i \in 1..Len(jobs.keys) |-> UnknownRunner(jobs, i, locationMap)])
               ELSE <<>>
  IN  [i \in 1..Len(found) |-> [found[i] EXCEPT !.severity = "warning"]]

\* the diagnostics of a pass that does not throw: the unknown runners, the
\* unexpected trigger keys, then those of the steps
performAdditionalValidations(workflow, locationMap) ==
  LET jobs == Get(workflow, S_jobs)
      on == Get(workflow, S_on)
  IN  (IF Truthy(jobs) /\ jobs.t = "object"
       THEN Flatten([i \in 1..Len(jobs.keys) |-> UnknownRunner(jobs, i, locationMap)])
       ELSE <<>>)
      \o (IF Truthy(on) /\ TypeOf(on) = "object"
          THEN UnexpectedKeys(on, S_push, validPushKeys, locationMap)
               \o UnexpectedKeys(on, S_pull_request, validPullRequestKeys, locationMap)
          ELSE <<>>)
      \o (IF Truthy(jobs) /\ jobs.t = "object"
          THEN Flatten([i \in 1..Len(jobs.keys) |-> StepChecks(jobs, i, locationMap)])
          ELSE <<>>)

(***************************************************************************)
(* removeDuplicateErrors and the sort by line.                              *)
(***************************************************************************)
\* the text of a message: its template, then the values put into it
MessageText(message) ==
  <<message.id>> \o message.a
    \o (IF message.n = 0 THEN <<>>
        ELSE IF message.n = NaN THEN <<" ", "NaN">>
        ELSE <<" ">> \o NumToStr(message.n))

\* `${n}` of an optional number: 'undefined' when it is absent
NumberText(n) == IF n = Absent THEN S_undefined ELSE NumToStr(n)

\* `${error.path}`: 'undefined' when the diagnostic has no path
PathText(path) == IF path = NoPath THEN S_undefined ELSE path

\* `${error.type}-${error.message}-${error.line}-${error.column}-${error.path}`
\* (the type, one of the literals of ValidationError, is kept as one symbol)
ErrorKey(error) ==
  <<error.type>> \o <<"-">> \o MessageText(error.message)
    \o <<"-">> \o NumberText(error.line)
    \o <<"-">> \o NumberText(error.column)
    \o <<"-">> \o PathText(error.path)

RECURSIVE FilterSeen(_, _)
FilterSeen(errs, seen) ==
  IF errs = <<>> THEN <<>>
  ELSE IF ErrorKey(Head(errs)) \in seen THEN FilterSeen(Tail(errs), seen)
  ELSE <<Head(errs)>> \o FilterSeen(Tail(errs), seen \cup {ErrorKey(Head(errs))})

\* removeDuplicateErrors without its filter
KeepDuplicates(errs) == errs

\* removeDuplicateErrors keeping the last diagnostic of a key, not the first
RECURSIVE KeepLastOfKey(_)
KeepLastOfKey(errs) ==
  IF errs = <<>> THEN <<>>
  ELSE IF \E i \in 2..Len(errs) : ErrorKey(errs[i]) = ErrorKey(Head(errs))
  THEN KeepLastOfKey(Tail(errs))
  ELSE <<Head(errs)>> \o KeepLastOfKey(Tail(errs))

\* removeDuplicateErrors that stops filtering after the first duplicate
RECURSIVE DropFirstDuplicate(_, _)
DropFirstDuplicate(errs, seen) ==
  IF errs = <<>> THEN <<>>
  ELSE IF ErrorKey(Head(errs)) \in seen THEN Tail(errs)
  ELSE <<Head(errs)>>
       \o DropFirstDuplicate(Tail(errs), seen \cup {ErrorKey(Head(errs))})
DropOneDuplicate(errs) == DropFirstDuplicate(errs, {})

removeDuplicateErrors(errs) == FilterSeen(errs, {})

\* a.line || 0
LineOrZero(error) == IF error.line = Absent THEN 0 ELSE error.line

\* Array.prototype.sort((a, b) => (a.line || 0) - (b.line || 0)): stable
RECURSIVE InsertByLine(_, _)
InsertByLine(e, sorted) ==
  IF sorted = <<>> THEN <<e>>
  ELSE IF LineOrZero(Head(sorted)) <= LineOrZero(e)
  THEN <<Head(sorted)>> \o InsertByLine(e, Tail(sorted))
  ELSE <<e>> \o sorted

RECURSIVE SortByLineFrom(_, _)
SortByLineFrom(errs, sorted) ==
  IF errs = <<>> THEN sorted
  ELSE SortByLineFrom(Tail(errs), InsertByLine(Head(errs), sorted))

\* the return of getYamlErrors without the sort
Unsorted(errs) == errs

SortByLine(errs) == SortByLineFrom(errs, <<>>)


(***************************************************************************)
(* SessionTimeoutManager.  Time is in milliseconds.  The manager is the     *)
(* record mgr: the fields of the object, the timers of the page (setTimeout *)
(* and setInterval, each with the handle it was given), the notifications   *)
(* made so far, and whether an exception is under way (thrown).             *)
(***************************************************************************)
VARIABLES
  now,   \* Date.now()
  env,   \* env.session
  mgr,   \* the manager and the timers of its page
  ops,   \* the number of calls and events that came from outside so far
  last   \* the last step: a call, an event, a timer or the passing of time

sessionVars == <<now, env, mgr, ops, last>>

MaxOps == 3        \* calls and events from outside
MaxHalfHours == 3  \* the time that passes, in steps of half an hour
MaxHours == 8      \* the time that passes over the life of a session, in hours

MAX_SESSION_DURATION == 8 * 60 * 60 * 1000
HOURLY_CHECK_INTERVAL == 60 * 60 * 1000

\* env.session: the timeout and the warning time in minutes, the check
\* interval in seconds
EnvConfigs ==
  {[timeoutMinutes |-> t, warningMinutes |-> w, checkIntervalSeconds |-> 1800] :
     t \in {0, 30, 60, 600, 1500}, w \in {5, 30}}

Callbacks == {"a", "b"}

\* this.sessionInfo = null, and a session record
NoSessionInfo ==
  [null |-> TRUE, isValid |-> FALSE, expiresAt |-> 0, lastActivity |-> 0,
   warningShown |-> FALSE, createdAt |-> 0]
SessionInfo(expiresAt, t) ==
  [null |-> FALSE, isValid |-> TRUE, expiresAt |-> expiresAt, lastActivity |-> t,
   warningShown |-> FALSE, createdAt |-> t]

\* setTimeout / setInterval: a new timer with the next handle; every is the
\* period of an interval and 0 for a timeout; gen records how many times
\* extendSession had recomputed expiresAt when the timer was scheduled
setTimer(m, kind, delay, every) ==
  [m EXCEPT !.timers = @ \cup {[id |-> m.nextTimer, kind |-> kind, due |-> now + delay,
                                every |-> every, gen |-> m.extensions]},
            !.nextTimer = @ + 1]

\* clearTimeout / clearInterval
clearTimer(m, id) == [m EXCEPT !.timers = {t \in @ : t.id # id}]

\* a call of a method the class does not have: TypeError
NotAFunction(m) == [m EXCEPT !.thrown = TRUE]

\* catch (error) { logger.error(...) }
Caught(m) == [m EXCEPT !.thrown = FALSE]

stopHourlyChecks(m) ==
  IF m.hourlyCheckInterval # 0
  THEN [clearTimer(m, m.hourlyCheckInterval) EXCEPT !.hourlyCheckInterval = 0]
  ELSE m

startHourlyChecks(m) ==
  LET m1 == stopHourlyChecks(m)
  IN  [setTimer(m1, "hourly", HOURLY_CHECK_INTERVAL, HOURLY_CHECK_INTERVAL)
         EXCEPT !.hourlyCheckInterval = m1.nextTimer]

stopPeriodicCheck(m) ==
  IF m.checkInterval # 0
  THEN [clearTimer(m, m.checkInterval) EXCEPT !.checkInterval = 0]
  ELSE m

startPeriodicCheck(m) ==
  LET m1 == stopPeriodicCheck(m)
      seconds == env.checkIntervalSeconds * 1000
      intervalMs == IF seconds > 5000 THEN seconds ELSE 5000
  IN  [setTimer(m1, "periodic", intervalMs, intervalMs) EXCEPT !.checkInterval = m1.nextTimer]

\* stopTokenValidation() as a method that exists and stops nothing
stopTokenValidationDefined(m) == m

\* this.stopTokenValidation(): the class defines no such method
stopTokenValidation(m) == NotAFunction(m)

clearTimeouts(m) ==
  LET m1 == IF m.warningTimeout # 0
            THEN [clearTimer(m, m.warningTimeout) EXCEPT !.warningTimeout = 0]
            ELSE m
  IN  IF m1.expirationTimeout # 0
      THEN [clearTimer(m1, m1.expirationTimeout) EXCEPT !.expirationTimeout = 0]
      ELSE m1

scheduleTimeouts(m0) ==
  LET m == clearTimeouts(m0)
      timeUntilExpiration == m.sessionInfo.expiresAt - now
      warningTime == env.warningMinutes * 60 * 1000
      m1 == IF timeUntilExpiration > warningTime
            THEN [setTimer(m, "warning", timeUntilExpiration - warningTime, 0)
                    EXCEPT !.warningTimeout = m.nextTimer]
            ELSE IF timeUntilExpiration > 0
            THEN setTimer(m, "warning", 100, 0)
            ELSE m
  IN  IF m.sessionInfo.null THEN m
      ELSE IF timeUntilExpiration > 0
      THEN [setTimer(m1, "expiration", timeUntilExpiration, 0)
              EXCEPT !.expirationTimeout = m1.nextTimer]
      ELSE setTimer(m1, "expiration", 100, 0)

\* forEach over the subscribers; each callback runs in its own try/catch
\* warned and expired count the invocations of each callback
notifyWarning(m) ==
  [m EXCEPT !.warned = [c \in Callbacks |-> IF c \in m.warningCallbacks THEN @[c] + 1 ELSE @[c]]]
notifyExpired(m) ==
  [m EXCEPT !.expired = [c \in Callbacks |-> IF c \in m.expiredCallbacks THEN @[c] + 1 ELSE @[c]]]

\* the caller has found the session present and valid
getMinutesRemaining(m) ==
  IF m.sessionInfo.null \/ ~m.sessionInfo.isValid THEN 0
  ELSE LET remaining == m.sessionInfo.expiresAt - now
       IN  IF remaining < 0 THEN 0 ELSE remaining \div (60 * 1000)

\* showSessionWarning without the check of warningShown
showSessionWarningAgain(m) ==
  IF m.sessionInfo.null \/ ~m.sessionInfo.isValid THEN m
  ELSE IF getMinutesRemaining(m) > 0
  THEN notifyWarning([m EXCEPT !.sessionInfo.warningShown = TRUE])
  ELSE m

showSessionWarning(m) ==
  IF m.sessionInfo.null \/ ~m.sessionInfo.isValid THEN m
  ELSE IF getMinutesRemaining(m) > 0 /\ ~m.sessionInfo.warningShown
  THEN notifyWarning([m EXCEPT !.sessionInfo.warningShown = TRUE])
  ELSE m

\* no try/catch here: the exception of stopTokenValidation leaves the method
handleSessionExpiration(m) ==
  IF m.sessionInfo.null THEN m
  ELSE LET m1 == stopTokenValidation(
                   stopPeriodicCheck(clearTimeouts([m EXCEPT !.sessionInfo.isValid = FALSE])))
       IN  IF m1.thrown THEN m1
           ELSE setTimer(notifyExpired(m1), "redirect", 1000, 0)

clearSession(m) ==
  LET m1 == stopTokenValidation(stopPeriodicCheck(clearTimeouts(
              [m EXCEPT !.sessionInfo = NoSessionInfo, !.isInitialized = FALSE])))
      m2 == [m1 EXCEPT !.warningCallbacks = {}, !.expiredCallbacks = {}]
  IN  IF m1.thrown THEN Caught(m1)
      ELSE IF m2.activityThrottle # 0
      THEN [clearTimer(m2, m2.activityThrottle) EXCEPT !.activityThrottle = 0]
      ELSE m2

\* sessionStorage and localStorage are not part of the model
forceLogout(m) == setTimer(notifyExpired(clearSession(m)), "redirect", 100, 0)

invalidateSession(m) ==
  Caught(stopTokenValidation(stopPeriodicCheck(clearTimeouts(
    IF m.sessionInfo.null THEN m ELSE [m EXCEPT !.sessionInfo.isValid = FALSE]))))

Min(a, b) == IF a < b THEN a ELSE b

extendSession(m) ==
  IF m.sessionInfo.null \/ ~m.isInitialized THEN m
  ELSE IF now - m.sessionInfo.createdAt >= MAX_SESSION_DURATION THEN Caught(forceLogout(m))
  ELSE LET timeoutMs == Min(env.timeoutMinutes * 60 * 1000, 24 * 60 * 60 * 1000)
       IN  Caught(scheduleTimeouts(
             [m EXCEPT !.sessionInfo.expiresAt = now + timeoutMs,
                       !.sessionInfo.lastActivity = now,
                       !.sessionInfo.warningShown = FALSE,
                       !.lastUserActivity = now,
                       !.extensions = @ + 1]))

\* isSessionValid() without the check of the 8-hour limit
isSessionValidNoLimit(m) ==
  IF m.sessionInfo.null \/ ~m.isInitialized THEN m
  ELSE IF ~(m.sessionInfo.isValid /\ now < m.sessionInfo.expiresAt) /\ m.sessionInfo.isValid
  THEN Caught(handleSessionExpiration(m))
  ELSE m

\* the manager after isSessionValid(), and what the call returns
isSessionValid(m) ==
  IF m.sessionInfo.null \/ ~m.isInitialized THEN m
  ELSE IF now - m.sessionInfo.createdAt >= MAX_SESSION_DURATION THEN Caught(forceLogout(m))
  ELSE IF ~(m.sessionInfo.isValid /\ now < m.sessionInfo.expiresAt) /\ m.sessionInfo.isValid
  THEN Caught(handleSessionExpiration(m))
  ELSE m
isSessionValidResult(m) ==
  /\ ~m.sessionInfo.null /\ m.isInitialized
  /\ now - m.sessionInfo.createdAt < MAX_SESSION_DURATION
  /\ m.sessionInfo.isValid /\ now < m.sessionInfo.expiresAt

Max(a, b) == IF a > b THEN a ELSE b

performPeriodicCheck(m) ==
  IF m.sessionInfo.null \/ ~m.isInitialized THEN m
  ELSE IF ~isSessionValidResult(m) THEN isSessionValid(m)
  ELSE IF /\ getMinutesRemaining(m) <= Max(env.warningMinutes, 1)
          /\ ~m.sessionInfo.warningShown
  THEN showSessionWarning(m)
  ELSE m

initializeSessionNoDefault(m) ==
  LET timeoutMs == env.timeoutMinutes * 60 * 1000
  IN  scheduleTimeouts(startHourlyChecks(startPeriodicCheck(
        [m EXCEPT !.sessionInfo = SessionInfo(now + timeoutMs, now),
                  !.lastUserActivity = now,
                  !.isInitialized = TRUE])))

initializeSession(m) ==
  LET timeoutMs == env.timeoutMinutes * 60 * 1000
      T == IF timeoutMs <= 0 \/ timeoutMs > 24 * 60 * 60 * 1000
           THEN 30 * 60 * 1000 ELSE timeoutMs
  IN  scheduleTimeouts(startHourlyChecks(startPeriodicCheck(
        [m EXCEPT !.sessionInfo = SessionInfo(now + T, now),
                  !.lastUserActivity = now,
                  !.isInitialized = TRUE])))

handleActivity(m) ==
  LET m1 == [m EXCEPT !.lastUserActivity = now]
  IN  IF ~m1.sessionInfo.null /\ m1.sessionInfo.isValid /\ m1.isInitialized
      THEN extendSession(m1) ELSE m1

\* a DOM activity event reaches the throttled handler
throttledHandler(m) ==
  IF m.activityThrottle # 0 THEN m
  ELSE [setTimer(m, "throttle", 1000, 0) EXCEPT !.activityThrottle = m.nextTimer]

\* the visibilitychange listener extending whatever session is younger than 8 hours
handleVisibilityChangeExtending(m, hidden) ==
  LET m1 == [m EXCEPT !.isActive = ~hidden]
  IN  IF ~(m1.isActive /\ ~m.isActive) THEN m1
      ELSE IF m1.sessionInfo.null \/ ~m1.isInitialized THEN m1
      ELSE IF now - m1.sessionInfo.createdAt >= MAX_SESSION_DURATION THEN Caught(forceLogout(m1))
      ELSE extendSession(m1)

\* the visibilitychange listener, document.hidden being hidden
handleVisibilityChange(m, hidden) ==
  LET m1 == [m EXCEPT !.isActive = ~hidden]
  IN  IF ~(m1.isActive /\ ~m.isActive) THEN m1
      ELSE IF m1.sessionInfo.null \/ ~m1.isInitialized THEN m1
      ELSE IF now - m1.sessionInfo.createdAt >= MAX_SESSION_DURATION THEN Caught(forceLogout(m1))
      ELSE IF now >= m1.sessionInfo.expiresAt THEN Caught(handleSessionExpiration(m1))
      ELSE IF now - m1.lastUserActivity > env.timeoutMinutes * 60 * 1000
      THEN Caught(handleSessionExpiration(m1))
      ELSE extendSession(m1)

\* await this.performHourlyCheck(): the class defines no such method
performHourlyCheck(m) == NotAFunction(m)

\* performTokenValidation up to its await: awaiting counts the calls that
\* wait for the callback, askedValid records that the session was valid then
performTokenValidation(m) ==
  IF m.sessionInfo.null \/ ~m.isInitialized THEN m
  ELSE IF now - m.sessionInfo.createdAt >= MAX_SESSION_DURATION THEN Caught(forceLogout(m))
  ELSE IF m.tokenValidationCallback # "null"
  THEN [m EXCEPT !.awaiting = @ + 1, !.askedValid = m.sessionInfo.isValid]
  ELSE m

\* performTokenValidation after its await, the callback having answered
tokenValidated(m) ==
  LET m1 == [m EXCEPT !.awaiting = @ - 1]
  IN  IF m1.tokenValidationCallback = "true" THEN extendSession(m1)
      ELSE Caught(forceLogout(m1))

\* window.location.href = ...: the page and its timers are gone
redirect(m) == [m EXCEPT !.navigated = TRUE, !.timers = {}]

\* the callback of a timer
TimerCallback(m, kind) ==
  CASE kind = "warning" -> showSessionWarning(m)
    [] kind = "expiration" -> Caught(handleSessionExpiration(m))
    [] kind = "periodic" -> Caught(performPeriodicCheck(m))
    [] kind = "hourly" -> Caught(performHourlyCheck(m))
    [] kind = "throttle" -> [handleActivity(m) EXCEPT !.activityThrottle = 0]
    [] kind = "redirect" -> redirect(m)

NewManager ==
  [sessionInfo |-> NoSessionInfo, checkInterval |-> 0, hourlyCheckInterval |-> 0,
   warningCallbacks |-> {}, expiredCallbacks |-> {}, isActive |-> TRUE,
   lastUserActivity |-> 0, activityThrottle |-> 0, isInitialized |-> FALSE,
   warningTimeout |-> 0, expirationTimeout |-> 0,
   timers |-> {}, nextTimer |-> 1, thrown |-> FALSE, navigated |-> FALSE,
   warned |-> [c \in Callbacks |-> 0], expired |-> [c \in Callbacks |-> 0],
   extensions |-> 0, tokenValidationCallback |-> "null", awaiting |-> 0,
   askedValid |-> FALSE,
   unsubscribedWarning |-> {}, unsubscribedExpired |-> {}]

NoTimer == [id |-> 0, kind |-> "none", due |-> 0, every |-> 0, gen |-> 0]

Idle == [op |-> "none", timer |-> NoTimer, before |-> NewManager]

(***************************************************************************)
(* The step wizard: useStepNavigation.  A JavaScript number is a record,     *)
(* so that NaN is a value of its own.                                        *)
(***************************************************************************)
VARIABLES
  wiz,     \* the state of the hook and of the stores it reads
  events,  \* the calls and events from outside so far
  wlast    \* the last step of the wizard, and the state before it

wizardVars == <<wiz, events, wlast>>

MaxEvents == 3    \* calls of the handlers and events from outside
MaxStepText == 2  \* the length of the step parameter of a URL

Number(v) == [nan |-> FALSE, v |-> v]
NotANumber == [nan |-> TRUE, v |-> 0]

\* Math.min, Math.max, + and the comparisons ===, >=, <= of JavaScript
MathMin(a, b) == IF a.nan \/ b.nan THEN NotANumber ELSE IF a.v < b.v THEN a ELSE b
MathMax(a, b) == IF a.nan \/ b.nan THEN NotANumber ELSE IF a.v > b.v THEN a ELSE b
Plus(a, b) == IF a.nan \/ b.nan THEN NotANumber ELSE Number(a.v + b.v)
StrictEq(a, b) == ~a.nan /\ ~b.nan /\ a.v = b.v
GreaterEq(a, b) == ~a.nan /\ ~b.nan /\ a.v >= b.v
LessEq(a, b) == ~a.nan /\ ~b.nan /\ a.v <= b.v

\* Number.parseInt(text, 10)
ParseInt(text) ==
  LET t == TrimStart(text)
      signed == t # <<>> /\ Head(t) \in {"-", "+"}
      u == IF signed THEN Tail(t) ELSE t
  IN  IF u = <<>> \/ ~IsDigit(Head(u)) THEN NotANumber
      ELSE IF Head(t) = "-" THEN Number(0 - ParseDigits(u, 0))
      ELSE Number(ParseDigits(u, 0))

\* the texts a step parameter is drawn from, the empty text for none
StepChars == {"2", "3", "7", "x", "-"}
StepTexts == UNION {[1..n -> StepChars] : n \in 0..MaxStepText}

\* Math.max(1, Math.min(4, step))
ClampStep(step) == MathMax(Number(1), MathMin(Number(4), step))

\* the initializer of currentStep; savedStep = 0 stands for no saved step
InitialStep(urlStep, savedStep) ==
  ClampStep(IF urlStep # <<>> THEN ParseInt(urlStep)
            ELSE IF savedStep # 0 THEN Number(savedStep) ELSE Number(1))

NoOrganizations(w) == w.organizations \in {"absent", "empty"}

\* saveWorkflowVersion(content, source)
saveWorkflowVersion(w, source) == [w EXCEPT !.versions = Append(@, source)]

\* saveWorkflowIfNeeded taking a failed save of the editor for a success
saveWorkflowIfNeededAnyway(w, saved, content) ==
  IF StrictEq(w.currentStep, Number(3)) /\ w.editor
  THEN [ok |-> TRUE,
        w |-> IF content /\ saved = "true"
              THEN saveWorkflowVersion(w, "navigation") ELSE w]
  ELSE IF StrictEq(w.currentStep, Number(2))
  THEN [ok |-> TRUE, w |-> saveWorkflowVersion(w, "navigation")]
  ELSE [ok |-> TRUE, w |-> w]

\* saveWorkflowIfNeeded: the state it leaves and the value it resolves to;
\* saved is what editorRef.current.save() does, content whether
\* getWorkflowContent() returns a text
saveWorkflowIfNeeded(w, saved, content) ==
  IF StrictEq(w.currentStep, Number(3)) /\ w.editor
  THEN IF saved # "true" THEN [ok |-> FALSE, w |-> w]
       ELSE [ok |-> TRUE,
             w |-> IF content THEN saveWorkflowVersion(w, "navigation") ELSE w]
  ELSE IF StrictEq(w.currentStep, Number(2))
  THEN [ok |-> TRUE, w |-> saveWorkflowVersion(w, "navigation")]
  ELSE [ok |-> TRUE, w |-> w]

\* loadLatestWorkflowContent, run by an effect of the render at step 3
loadLatestWorkflowContent(w) ==
  IF StrictEq(w.currentStep, Number(3)) /\ w.versions = <<>>
  THEN saveWorkflowVersion(w, "config") ELSE w

\* a handler from setIsNavigating(true) to its await: the save has run, and
\* what follows the await is left pending
Navigate(w, handler, targetStep, saved, content) ==
  LET s == saveWorkflowIfNeeded(w, saved, content)
  IN  [s.w EXCEPT !.isNavigating = TRUE,
                  !.pending = @ \cup {[handler |-> handler, ok |-> s.ok,
                                       targetStep |-> targetStep]}]

\* handleStepClick without the check of isNavigating
handleStepClickUnguarded(w, stepId, saved, content) ==
  IF StrictEq(Number(stepId), w.currentStep) THEN w
  ELSE IF NoOrganizations(w) THEN w
  ELSE Navigate(w, "handleStepClick", ClampStep(Number(stepId)), saved, content)

handleStepClick(w, stepId, saved, content) ==
  IF w.isNavigating \/ StrictEq(Number(stepId), w.currentStep) THEN w
  ELSE IF NoOrganizations(w) THEN w
  ELSE Navigate(w, "handleStepClick", ClampStep(Number(stepId)), saved, content)

\* handlePrevious without the check of the organizations
handlePreviousAnyOrganizations(w, saved, content) ==
  IF w.isNavigating \/ LessEq(w.currentStep, Number(1)) THEN w
  ELSE Navigate(w, "handlePrevious",
                MathMax(Number(1), Plus(w.currentStep, Number(0 - 1))), saved, content)

handlePrevious(w, saved, content) ==
  IF w.isNavigating \/ LessEq(w.currentStep, Number(1)) THEN w
  ELSE IF NoOrganizations(w) THEN w
  ELSE Navigate(w, "handlePrevious",
                MathMax(Number(1), Plus(w.currentStep, Number(0 - 1))), saved, content)

handleNext(w, saved, content) ==
  IF w.isNavigating \/ GreaterEq(w.currentStep, Number(4)) THEN w
  ELSE IF NoOrganizations(w) THEN w
  ELSE Navigate(w, "handleNext",
                MathMin(Number(4), Plus(w.currentStep, Number(1))), saved, content)

\* a handler after its await, up to the end of its finally block, and the
\* effects of the render that follows
Resumed(w, p) ==
  LET rest == [w EXCEPT !.pending = @ \ {p}, !.isNavigating = FALSE]
  IN  IF ~p.ok THEN rest
      ELSE loadLatestWorkflowContent([rest EXCEPT !.currentStep = p.targetStep])

\* the popstate listener, the URL having the step parameter urlStep
handlePopState(w, urlStep) ==
  IF urlStep = <<>> THEN w
  ELSE LET step == ClampStep(ParseInt(urlStep))
       IN  IF StrictEq(step, w.currentStep) THEN w
           ELSE loadLatestWorkflowContent([w EXCEPT !.currentStep = step])

\* the hook after its first render
NewWizard(urlStep, savedStep, organizations, editor) ==
  loadLatestWorkflowContent(
    [currentStep |-> InitialStep(urlStep, savedStep), isNavigating |-> FALSE,
     organizations |-> organizations, editor |-> editor, versions |-> <<>>,
     pending |-> {}])

NoContinuation == [handler |-> "none", ok |-> TRUE, targetStep |-> Number(1)]
WizardIdle ==
  /\ wiz = NewWizard(<<>>, 0, "absent", FALSE)
  /\ events = 0
  /\ wlast = [op |-> "none", saved |-> "true", resumed |-> NoContinuation, before |-> wiz]

(***************************************************************************)
(* The filename validator and its corrector, as section 4.7 of the          *)
(* specification describes them.  validateWorkflowFilename is the set of    *)
(* the types of the errors it reports.                                      *)
(***************************************************************************)
VARIABLES
  filename,       \* the name given
  reported,       \* the error types the validator reports for filename
  corrected,      \* what the corrector makes of filename
  reportedAfter,  \* the error types the validator reports for corrected
  fstage          \* how far the name has been handled

filenameVars == <<filename, reported, corrected, reportedAfter, fstage>>

MaxStem == 3  \* the length of the stems the names are built of
MaxFilenameLength == 100

UpperLetters == <<"A","B","C","D","E","F","G","H","I","J","K","L","M",
                  "N","O","P","Q","R","S","T","U","V","W","X","Y","Z">>
LowerLetters == <<"a","b","c","d","e","f","g","h","i","j","k","l","m",
                  "n","o","p","q","r","s","t","u","v","w","x","y","z">>
ToLowerCase(s) ==
  [i \in 1..Len(s) |->
     IF \E k \in 1..26 : UpperLetters[k] = s[i]
     THEN LowerLetters[CHOOSE k \in 1..26 : UpperLetters[k] = s[i]]
     ELSE s[i]]

EndsWith(s, p) == Len(p) <= Len(s) /\ SubSeq(s, Len(s) - Len(p) + 1, Len(s)) = p

PathSeparators == {"/", "\\"}
ForbiddenChars == {"<", ">", ":", "\"", "|", "?", "*"}
\* a larger set that the specification does not list: its known part
DiscouragedChars == ForbiddenChars
AllowedChars ==
  {UpperLetters[k] : k \in 1..26} \cup {LowerLetters[k] : k \in 1..26}
    \cup {Digits[d] : d \in 1..10} \cup {"_", ".", "-"}

S_yml == <<".", "y", "m", "l">>
S_yaml == <<".", "y", "a", "m", "l">>
S_workflowSuffix == <<"-", "w", "o", "r", "k", "f", "l", "o", "w">>
S_workflow_yml == <<"w", "o", "r", "k", "f", "l", "o", "w">> \o S_yml

\* the extension .yml or .yaml at the end of s, in the case s has it, or none
ExtensionOf(s) ==
  IF EndsWith(ToLowerCase(s), S_yaml) THEN SubSeq(s, Len(s) - 4, Len(s))
  ELSE IF EndsWith(ToLowerCase(s), S_yml) THEN SubSeq(s, Len(s) - 3, Len(s))
  ELSE <<>>
StemOf(s) == SubSeq(s, 1, Len(s) - Len(ExtensionOf(s)))

ReservedNames ==
  {<<"c","o","n">>, <<"p","r","n">>, <<"a","u","x">>, <<"n","u","l">>}
    \cup {<<"c","o","m",Digits[d]>> : d \in 2..10}
    \cup {<<"l","p","t",Digits[d]>> : d \in 2..10}

\* the reserved-name check with no lowering of the case
IsReservedExact(s) == StemOf(s) \in ReservedNames

IsReserved(s) == ToLowerCase(StemOf(s)) \in ReservedNames

validateWorkflowFilename(s) ==
  {t \in {"extension", "characters", "length", "reserved", "path"} :
     \/ t = "length" /\ (Trim(s) = <<>> \/ Len(s) > MaxFilenameLength)
     \/ t = "path" /\ \E i \in 1..Len(s) : s[i] \in PathSeparators
     \/ t = "extension" /\ ExtensionOf(s) = <<>>
     \/ t = "characters"
          /\ \/ \E i \in 1..Len(s) : s[i] \notin AllowedChars
             \/ s # <<>> /\ (s[1] = "." \/ s[Len(s)] = ".")
             \/ Includes(s, <<".", ".">>)
     \/ t = "reserved" /\ IsReserved(s)}

\* every run of characters of set becomes the one character d
ReplaceRuns(s, set, d) ==
  LET marked == [i \in 1..Len(s) |->
                   IF s[i] \notin set THEN s[i]
                   ELSE IF i < Len(s) /\ s[i + 1] \in set THEN "run" ELSE d]
  IN  SelectSeq(marked, LAMBDA c : c # "run")

\* the characters of set at the start and at the end are stripped
StripEnds(s, set) ==
  LET kept == {i \in 1..Len(s) : s[i] \notin set}
  IN  IF kept = {} THEN <<>>
      ELSE SubSeq(s, CHOOSE i \in kept : \A j \in kept : i <= j,
                     CHOOSE i \in kept : \A j \in kept : j <= i)

\* s without what follows its last dot, the dot included
WithoutExtension(s) ==
  LET dots == {i \in 1..Len(s) : s[i] = "."}
  IN  IF dots = {} THEN s
      ELSE SubSeq(s, 1, (CHOOSE i \in dots : \A j \in dots : j <= i) - 1)

\* the rewriting steps up to the collapse of the hyphens
Cleaned(s) ==
  LET hyphened == [i \in 1..Len(s) |->
                     IF s[i] \in PathSeparators \cup ForbiddenChars \cup DiscouragedChars
                     THEN "-" ELSE s[i]]
      spaced == ReplaceRuns(hyphened, {" "}, "-")
      dotted == ReplaceRuns(spaced, {"."}, ".")
  IN  ReplaceRuns(StripEnds(dotted, {".", "-"}), {"-"}, "-")

\* the steps from the truncation on
Finished(s) ==
  LET cut == IF Len(s) <= MaxFilenameLength THEN s
             ELSE SubSeq(StemOf(s), 1, MaxFilenameLength - Len(ExtensionOf(s)))
                    \o ExtensionOf(s)
      named == IF IsReserved(cut)
               THEN StemOf(cut) \o S_workflowSuffix \o ExtensionOf(cut) ELSE cut
  IN  IF StemOf(named) = <<>> THEN S_workflow_yml ELSE named

\* the corrector leaving a missing or invalid extension as it is
suggestCorrectionKeepingExtension(s) ==
  IF Trim(s) = <<>> THEN S_workflow_yml ELSE Finished(Cleaned(s))

suggestFilenameCorrection(s) ==
  IF Trim(s) = <<>> THEN S_workflow_yml
  ELSE LET c == Cleaned(s)
       IN  Finished(IF ExtensionOf(c) # <<>> THEN c ELSE WithoutExtension(c) \o S_yml)

uiVars == <<wizardVars, filenameVars>>

FilenameIdle ==
  /\ filename = <<>>
  /\ reported = {}
  /\ corrected = <<>>
  /\ reportedAfter = {}
  /\ fstage = "idle"

(***************************************************************************)
(* State: one call of getYamlErrors on the document doc.                    *)
(***************************************************************************)
VARIABLES
  doc,         \* the argument of the call
  pc,          \* the step of getYamlErrors that comes next
  parsedYaml,  \* the value yaml.load returned
  yamlMap,     \* the location map
  errors,      \* the diagnostics collected so far
  result,      \* the list returned
  ran,         \* the pipeline steps that were entered
  additionalErrors, \* what performAdditionalValidations returned
  calls,       \* the calls of getYamlErrors that ended before this one
  input,       \* a list of diagnostics handed to removeDuplicateErrors
  once,        \* what removeDuplicateErrors makes of input
  twice,       \* what removeDuplicateErrors makes of once
  stage        \* how far the dedup stage has been applied to input

pipelineVars ==
  <<doc, pc, parsedYaml, yamlMap, errors, result, ran, additionalErrors>>
dedupVars == <<input, once, twice, stage>>
callVars == <<calls>>
\* what a step of getYamlErrors leaves alone, and what the dedup stage on its
\* own leaves alone
otherVars == <<dedupVars, callVars, sessionVars, uiVars>>
outsideDedup == <<pipelineVars, callVars, sessionVars, uiVars>>
vars == <<pipelineVars, dedupVars, callVars, sessionVars, uiVars>>

\* no session manager is at work
ManagerIdle ==
  /\ now = 0
  /\ env = [timeoutMinutes |-> 30, warningMinutes |-> 5, checkIntervalSeconds |-> 1800]
  /\ mgr = NewManager
  /\ ops = 0
  /\ last = Idle

\* no session manager, no wizard, and no filename is handled
SessionIdle == ManagerIdle /\ WizardIdle /\ FilenameIdle

\* no call of getYamlErrors is under way
PipelineIdle ==
  /\ doc = Unparseable(BrokenLines, FALSE, 0, 0)
  /\ pc = "idle"
  /\ parsedYaml = Undefined
  /\ yamlMap = << >>
  /\ errors = <<>>
  /\ result = <<>>
  /\ ran = {}
  /\ additionalErrors = <<>>
  /\ calls = <<>>

\* no list is handed to the dedup stage on its own
DedupIdle ==
  /\ input = <<>>
  /\ once = <<>>
  /\ twice = <<>>
  /\ stage = "idle"

Init ==
  /\ DedupIdle
  /\ SessionIdle
  /\ \/ doc \in SyntaxErrorDocs \cup NonMappingDocs
     \/ \E w \in WorkflowCfgs : doc = WorkflowDoc(w)
  /\ pc = "parse"
  /\ parsedYaml = Undefined
  /\ yamlMap = << >>
  /\ errors = <<>>
  /\ result = <<>>
  /\ ran = {}
  /\ additionalErrors = <<>>
  /\ calls = <<>>

\* the diagnostic of the catch block of Step 1
SyntaxError(d) ==
  IF d.hasMark
  THEN Diagnostic("syntax-error", Msg("YAML syntax error", <<>>, 0),
                  d.markLine + 1, d.markColumn + 1, NoPath, "error")
  ELSE Diagnostic("syntax-error", Msg("YAML parsing failed", <<>>, 0),
                  Absent, Absent, NoPath, "error")

\* Step 1 whose catch block does not return: the call goes on to Step 2
ParseYamlWithoutReturn ==
  /\ UNCHANGED otherVars
  /\ pc = "parse"
  /\ ran' = ran \cup {"parse"}
  /\ parsedYaml' = doc.value
  /\ yamlMap' = IF doc.ok THEN buildLocationMap(doc.lines, doc.value) ELSE << >>
  /\ errors' = IF doc.ok THEN errors ELSE errors \o <<SyntaxError(doc)>>
  /\ pc' = "structure"
  /\ UNCHANGED <<doc, result, additionalErrors>>

\* Step 1: parse the YAML and build the location map; a failure returns the
\* one syntax-error diagnostic
ParseYaml ==
  /\ UNCHANGED otherVars
  /\ pc = "parse"
  /\ ran' = ran \cup {"parse"}
  /\ IF doc.ok
     THEN /\ parsedYaml' = doc.value
          /\ yamlMap' = buildLocationMap(doc.lines, doc.value)
          /\ pc' = "structure"
          /\ UNCHANGED <<errors, result>>
     ELSE /\ errors' = errors \o <<SyntaxError(doc)>>
          /\ result' = errors'
          /\ pc' = "returned"
          /\ UNCHANGED <<parsedYaml, yamlMap>>
  /\ UNCHANGED <<doc, additionalErrors>>

\* Step 2: a root that is no object returns the one structure diagnostic
ValidateStructure ==
  /\ UNCHANGED otherVars
  /\ pc = "structure"
  /\ ran' = ran \cup {"structure"}
  /\ IF ~Truthy(parsedYaml) \/ TypeOf(parsedYaml) # "object"
     THEN /\ errors' = errors \o
               <<Diagnostic("structure", Msg("Workflow must be a valid YAML object", <<>>, 0),
                            1, Absent, NoPath, "error")>>
          /\ result' = errors'
          /\ pc' = "returned"
     ELSE /\ pc' = "schema"
          /\ UNCHANGED <<errors, result>>
  /\ UNCHANGED <<doc, parsedYaml, yamlMap, additionalErrors>>

\* Step 3: validate against the schema and convert every error; a
\* conversion that throws ends the call with the exception
SchemaValidation ==
  /\ UNCHANGED otherVars
  /\ pc = "schema"
  /\ ran' = ran \cup {"schema"}
  /\ LET raw == workflowSchema(parsedYaml)
         converted == [i \in 1..Len(raw) |-> convertAjvError(raw[i], yamlMap)]
     IN  IF \E i \in 1..Len(raw) : converted[i].kind = "throw"
         THEN /\ pc' = "thrown"
              /\ UNCHANGED errors
         ELSE /\ errors' = errors \o
                   Flatten([i \in 1..Len(raw) |->
                      IF converted[i].kind = "diagnostic"
                      THEN <<converted[i].diagnostic>> ELSE <<>>])
              /\ pc' = "additional"
  /\ UNCHANGED <<doc, parsedYaml, yamlMap, result, additionalErrors>>

\* Step 4: the additional validations; an exception of the pass ends the call
AdditionalValidations ==
  /\ UNCHANGED otherVars
  /\ pc = "additional"
  /\ ran' = ran \cup {"additional"}
  /\ IF AdditionalThrows(parsedYaml)
     THEN /\ pc' = "thrown"
          /\ UNCHANGED <<errors, additionalErrors>>
     ELSE /\ additionalErrors' = performAdditionalValidations(parsedYaml, yamlMap)
          /\ errors' = errors \o additionalErrors'
          /\ pc' = "dedup"
  /\ UNCHANGED <<doc, parsedYaml, yamlMap, result>>

\* Step 5: remove the duplicates, sort by line and return
DedupAndSort ==
  /\ UNCHANGED otherVars
  /\ pc = "dedup"
  /\ ran' = ran \cup {"dedup"}
  /\ result' = SortByLine(removeDuplicateErrors(errors))
  /\ pc' = "returned"
  /\ UNCHANGED <<doc, parsedYaml, yamlMap, errors, additionalErrors>>

Next ==
  \/ ParseYaml
  \/ ValidateStructure
  \/ SchemaValidation
  \/ AdditionalValidations
  \/ DedupAndSort

Spec == Init /\ [][Next]_vars

(***************************************************************************)
(* Calls of getYamlErrors one after the other: the function is synchronous,  *)
(* so a call begins when the one before it has ended.  Every call starts     *)
(* from its own errors list, parsedYaml and yamlMap.                         *)
(***************************************************************************)
CallDocs ==
  {Unparseable(BrokenLines, TRUE, 0, 1),
   Loaded(<< S_CI >>, Str(S_CI)),
   WorkflowDoc([hasOn |-> FALSE, hasJobs |-> TRUE, names |-> <<S_build>>,
                jobs |-> <<[kind |-> "object", runsOn |-> "unknown",
                            hasSteps |-> TRUE, steps |-> <<"checkout", "scan">>]>>]),
   WorkflowDoc([hasOn |-> TRUE, hasJobs |-> TRUE, names |-> <<S_build>>,
                jobs |-> <<[kind |-> "object", runsOn |-> "known",
                            hasSteps |-> TRUE, steps |-> <<"usesNum">>]>>])}

InitCalls ==
  /\ DedupIdle
  /\ SessionIdle
  /\ doc \in CallDocs
  /\ pc = "parse"
  /\ parsedYaml = Undefined
  /\ yamlMap = << >>
  /\ errors = <<>>
  /\ result = <<>>
  /\ ran = {}
  /\ additionalErrors = <<>>
  /\ calls = <<>>

\* what a call that has ended leaves behind for its caller
Outcome == [doc |-> doc, pc |-> pc, result |-> result]

\* the next call, were the errors list shared by the calls
CallAgainKeepingErrors ==
  /\ pc \in {"returned", "thrown"}
  /\ Len(calls) < MaxCalls
  /\ calls' = Append(calls, Outcome)
  /\ doc' \in CallDocs
  /\ pc' = "parse"
  /\ parsedYaml' = Undefined
  /\ yamlMap' = << >>
  /\ result' = <<>>
  /\ ran' = {}
  /\ additionalErrors' = <<>>
  /\ UNCHANGED <<errors, dedupVars, sessionVars, uiVars>>

\* the next call of getYamlErrors, with any document
CallAgain ==
  /\ pc \in {"returned", "thrown"}
  /\ Len(calls) < MaxCalls
  /\ calls' = Append(calls, Outcome)
  /\ doc' \in CallDocs
  /\ pc' = "parse"
  /\ parsedYaml' = Undefined
  /\ yamlMap' = << >>
  /\ errors' = <<>>
  /\ result' = <<>>
  /\ ran' = {}
  /\ additionalErrors' = <<>>
  /\ UNCHANGED <<dedupVars, sessionVars, uiVars>>

NextCalls ==
  \/ ParseYaml
  \/ ValidateStructure
  \/ SchemaValidation
  \/ AdditionalValidations
  \/ DedupAndSort
  \/ CallAgain

SpecCalls == InitCalls /\ [][NextCalls]_vars

(***************************************************************************)
(* The dedup stage on its own: removeDuplicateErrors applied to a list of   *)
(* diagnostics, and again to its own output.                                *)
(***************************************************************************)
SomePaths == {<<"o","n">>, <<"1","-","o","n">>}
SomeMessages == {Msg("Value cannot be empty", <<>>, 0),
                 Msg("Value cannot be empty", <<"-","1">>, 0)}
SomeDiagnostics ==
  {Diagnostic("invalid-value", message, line, 1, path, severity) :
     message \in SomeMessages, line \in {1, 2}, path \in SomePaths,
     severity \in {"error", "warning"}}

InitDedup ==
  /\ PipelineIdle
  /\ SessionIdle
  /\ input \in UNION {[1..n -> SomeDiagnostics] : n \in 0..MaxLen}
  /\ once = <<>>
  /\ twice = <<>>
  /\ stage = "input"

ApplyDedup ==
  /\ stage = "input"
  /\ once' = removeDuplicateErrors(input)
  /\ stage' = "once"
  /\ UNCHANGED <<outsideDedup, input, twice>>

ApplyDedupAgain ==
  /\ stage = "once"
  /\ twice' = removeDuplicateErrors(once)
  /\ stage' = "twice"
  /\ UNCHANGED <<outsideDedup, input, once>>

NextDedup ==
  \/ ApplyDedup
  \/ ApplyDedupAgain

SpecDedup == InitDedup /\ [][NextDedup]_vars

InitSession ==
  /\ WizardIdle
  /\ FilenameIdle
  /\ PipelineIdle
  /\ DedupIdle
  /\ now = 0
  /\ env \in EnvConfigs
  /\ mgr = NewManager
  /\ ops = 0
  /\ last = Idle

\* a call or an event from outside
Outside(op, m) ==
  /\ ops < MaxOps
  /\ ~mgr.navigated
  /\ mgr' = m
  /\ ops' = ops + 1
  /\ last' = [op |-> op, timer |-> NoTimer, before |-> mgr]
  /\ UNCHANGED <<now, env, pipelineVars, dedupVars, callVars, uiVars>>

InitializeSession == Outside("initializeSession", initializeSession(mgr))
ExtendSession == Outside("extendSession", extendSession(mgr))
IsSessionValid == Outside("isSessionValid", isSessionValid(mgr))
InvalidateSession == Outside("invalidateSession", invalidateSession(mgr))
ClearSession == Outside("clearSession", clearSession(mgr))
\* unsubscribedWarning and unsubscribedExpired record the callbacks whose
\* unsubscribe function was called and that were not subscribed again
OnSessionWarning ==
  \E c \in Callbacks :
    Outside("onSessionWarning",
            [mgr EXCEPT !.warningCallbacks = @ \cup {c}, !.unsubscribedWarning = @ \ {c}])
OnSessionExpired ==
  \E c \in Callbacks :
    Outside("onSessionExpired",
            [mgr EXCEPT !.expiredCallbacks = @ \cup {c}, !.unsubscribedExpired = @ \ {c}])

\* the function onSessionWarning returned for c is called
UnsubscribeWarning ==
  \E c \in mgr.warningCallbacks :
    Outside("unsubscribeWarning",
            [mgr EXCEPT !.warningCallbacks = @ \ {c}, !.unsubscribedWarning = @ \cup {c}])
\* the function onSessionExpired returned for c is called
UnsubscribeExpired ==
  \E c \in mgr.expiredCallbacks :
    Outside("unsubscribeExpired",
            [mgr EXCEPT !.expiredCallbacks = @ \ {c}, !.unsubscribedExpired = @ \cup {c}])

\* the callback registered answers true or false, or rejects
SetTokenValidationCallback ==
  \E answer \in {"true", "false", "rejects"} :
    Outside("setTokenValidationCallback", [mgr EXCEPT !.tokenValidationCallback = answer])
Activity == Outside("activity", throttledHandler(mgr))
VisibilityChange ==
  \E hidden \in BOOLEAN : Outside("visibilitychange", handleVisibilityChange(mgr, hidden))

\* the timers that are due; the one due first runs first
Due == {t \in mgr.timers : t.due <= now}

TimerFires ==
  \E t \in Due :
    /\ \A u \in Due : t.due <= u.due
    /\ LET rest == {u \in mgr.timers : u.id # t.id}
           left == IF t.every = 0 THEN rest
                   ELSE rest \cup {[t EXCEPT !.due = @ + t.every]}
       IN  mgr' = TimerCallback([mgr EXCEPT !.timers = left], t.kind)
    /\ last' = [op |-> "timer", timer |-> t, before |-> mgr]
    /\ UNCHANGED <<now, env, ops, pipelineVars, dedupVars, callVars, uiVars>>

HalfHour == 30 * 60 * 1000

\* time passes, up to the next timer and by step at most, not beyond limit
Pass(step, limit) ==
  /\ Due = {}
  /\ LET next == now + step
     IN  /\ now' = IF \E t \in mgr.timers : t.due < next
                   THEN CHOOSE d \in {t.due : t \in mgr.timers} :
                          \A t \in mgr.timers : d <= t.due
                   ELSE next
  /\ now' <= limit
  /\ last' = [op |-> "advance", timer |-> NoTimer, before |-> mgr]
  /\ UNCHANGED <<env, mgr, ops, pipelineVars, dedupVars, callVars, uiVars>>

Advance == Pass(HalfHour, MaxHalfHours * HalfHour)

NextSession ==
  \/ InitializeSession \/ ExtendSession \/ IsSessionValid
  \/ InvalidateSession \/ ClearSession
  \/ OnSessionWarning \/ OnSessionExpired
  \/ UnsubscribeWarning \/ UnsubscribeExpired
  \/ SetTokenValidationCallback
  \/ Activity \/ VisibilityChange
  \/ TimerFires \/ Advance

SpecSession == InitSession /\ [][NextSession]_vars

\* the manager of an application that has subscribed its callbacks, followed
\* over the whole life of a session, with a timeout that initializeSession
\* accepts
InitSubscribed ==
  /\ WizardIdle
  /\ FilenameIdle
  /\ PipelineIdle
  /\ DedupIdle
  /\ now = 0
  /\ env \in {e \in EnvConfigs : e.timeoutMinutes > 0 /\ e.timeoutMinutes <= 24 * 60}
  /\ mgr = [NewManager EXCEPT !.warningCallbacks = Callbacks,
                              !.expiredCallbacks = Callbacks]
  /\ ops = 0
  /\ last = [Idle EXCEPT !.before = mgr]

Hour == 60 * 60 * 1000

\* time passes up to the next timer, or to the end when no timer is pending
AdvanceLong == Pass(MaxHours * Hour, MaxHours * Hour)

NextLong ==
  \/ InitializeSession \/ ExtendSession \/ IsSessionValid
  \/ InvalidateSession \/ ClearSession
  \/ OnSessionWarning \/ OnSessionExpired
  \/ UnsubscribeWarning \/ UnsubscribeExpired
  \/ Activity \/ VisibilityChange
  \/ TimerFires \/ AdvanceLong

SpecLong == InitSubscribed /\ [][NextLong]_vars

(***************************************************************************)
(* performTokenValidation, which no line of the class calls, called on a    *)
(* manager that has a token validation callback.                            *)
(***************************************************************************)
InitValidating ==
  /\ WizardIdle
  /\ FilenameIdle
  /\ PipelineIdle
  /\ DedupIdle
  /\ now = 0
  /\ env \in {e \in EnvConfigs : e.timeoutMinutes > 0 /\ e.timeoutMinutes <= 24 * 60}
  /\ \E answer \in {"true", "false", "rejects"} :
       mgr = [NewManager EXCEPT !.warningCallbacks = Callbacks,
                                !.expiredCallbacks = Callbacks,
                                !.tokenValidationCallback = answer]
  /\ ops = 0
  /\ last = [Idle EXCEPT !.before = mgr]

PerformTokenValidation == Outside("performTokenValidation", performTokenValidation(mgr))

\* the callback answers and performTokenValidation goes on
TokenValidated ==
  /\ mgr.awaiting > 0
  /\ ~mgr.navigated
  /\ mgr' = tokenValidated(mgr)
  /\ last' = [op |-> "tokenValidated", timer |-> NoTimer, before |-> mgr]
  /\ UNCHANGED <<now, env, ops, pipelineVars, dedupVars, callVars, uiVars>>

NextValidating ==
  \/ InitializeSession \/ InvalidateSession \/ ClearSession
  \/ PerformTokenValidation \/ TokenValidated
  \/ TimerFires \/ AdvanceLong

SpecValidating == InitValidating /\ [][NextValidating]_vars

(***************************************************************************)
(* The wizard: calls of the handlers, the handlers resumed after their      *)
(* await, and the events the hook listens to.                               *)
(***************************************************************************)
SaveOutcomes == {"true", "false", "throws"}
Organizations == {"absent", "empty", "some"}

InitWizard ==
  /\ PipelineIdle
  /\ DedupIdle
  /\ ManagerIdle
  /\ FilenameIdle
  /\ \E urlStep \in StepTexts, savedStep \in 0..5, o \in Organizations, editor \in BOOLEAN :
       wiz = NewWizard(urlStep, savedStep, o, editor)
  /\ events = 0
  /\ wlast = [op |-> "none", saved |-> "true", resumed |-> NoContinuation, before |-> wiz]

\* a call or an event from outside
WizardEvent(op, w, saved) ==
  /\ events < MaxEvents
  /\ wiz' = w
  /\ events' = events + 1
  /\ wlast' = [op |-> op, saved |-> saved, resumed |-> NoContinuation, before |-> wiz]
  /\ UNCHANGED <<pipelineVars, dedupVars, callVars, sessionVars, filenameVars>>

HandleStepClick ==
  \E stepId \in 0..5, saved \in SaveOutcomes, content \in BOOLEAN :
    WizardEvent("handleStepClick", handleStepClick(wiz, stepId, saved, content), saved)

HandlePrevious ==
  \E saved \in SaveOutcomes, content \in BOOLEAN :
    WizardEvent("handlePrevious", handlePrevious(wiz, saved, content), saved)

HandleNext ==
  \E saved \in SaveOutcomes, content \in BOOLEAN :
    WizardEvent("handleNext", handleNext(wiz, saved, content), saved)

PopState ==
  \E urlStep \in StepTexts : WizardEvent("popstate", handlePopState(wiz, urlStep), "true")

\* the organization store changes
OrganizationsChange ==
  \E o \in Organizations \ {wiz.organizations} :
    WizardEvent("organizations", [wiz EXCEPT !.organizations = o], "true")

\* a handler goes on after its await
Resume ==
  \E p \in wiz.pending :
    /\ wiz' = Resumed(wiz, p)
    /\ wlast' = [op |-> "resume", saved |-> "true", resumed |-> p, before |-> wiz]
    /\ UNCHANGED <<events, pipelineVars, dedupVars, callVars, sessionVars, filenameVars>>

NextWizard ==
  \/ HandleStepClick
  \/ HandlePrevious
  \/ HandleNext
  \/ PopState
  \/ OrganizationsChange
  \/ Resume

SpecWizard == InitWizard /\ [][NextWizard]_vars

(***************************************************************************)
(* A filename is validated, corrected, and the corrected name validated.    *)
(***************************************************************************)
StemChars == {"a", ".", "-", " ", "/", ":"}
Repeated(c, n) == [i \in 1..n |-> c]
Stems ==
  UNION {[1..n -> StemChars] : n \in 0..MaxStem}
    \cup {<<"c","o","n">>, <<"C","o","n">>, <<"n","u","l">>, <<"c","o","m","1">>,
          <<"c","o","n","a">>}
    \cup {Repeated("a", 97), Repeated("a", 150), Repeated("a", 95) \o <<".", "a">>}
Extensions == {<<>>, S_yml, S_yaml, <<".","Y","M","L">>, <<".","t","x","t">>}
Filenames == {stem \o ext : stem \in Stems, ext \in Extensions}

InitFilename ==
  /\ PipelineIdle
  /\ DedupIdle
  /\ ManagerIdle
  /\ WizardIdle
  /\ filename \in Filenames
  /\ reported = {}
  /\ corrected = <<>>
  /\ reportedAfter = {}
  /\ fstage = "given"

ValidateFilename ==
  /\ fstage = "given"
  /\ reported' = validateWorkflowFilename(filename)
  /\ fstage' = "validated"
  /\ UNCHANGED <<filename, corrected, reportedAfter, pipelineVars, dedupVars,
                 callVars, sessionVars, wizardVars>>

SuggestCorrection ==
  /\ fstage = "validated"
  /\ corrected' = suggestFilenameCorrection(filename)
  /\ fstage' = "corrected"
  /\ UNCHANGED <<filename, reported, reportedAfter, pipelineVars, dedupVars,
                 callVars, sessionVars, wizardVars>>

ValidateCorrected ==
  /\ fstage = "corrected"
  /\ reportedAfter' = validateWorkflowFilename(corrected)
  /\ fstage' = "done"
  /\ UNCHANGED <<filename, reported, corrected, pipelineVars, dedupVars,
                 callVars, sessionVars, wizardVars>>

NextFilename == ValidateFilename \/ SuggestCorrection \/ ValidateCorrected

SpecFilename == InitFilename /\ [][NextFilename]_vars



(***************************************************************************)
(* Properties of getYamlErrors (under Spec) and of removeDuplicateErrors    *)
(* (under SpecDedup).                                                       *)
(***************************************************************************)
Returned == pc = "returned"
IsWorkflow == doc.ok /\ doc.value.t = "object"
DocJobs == Get(doc.value, S_jobs)
Positions(list) == 1..Len(list)

\* C1: a document that fails to parse returns exactly one diagnostic, a
\* syntax-error, and no step after the parse is entered.
C1_SyntaxErrorOnly ==
  ~doc.ok /\ pc # "idle" =>
    /\ pc \in {"parse", "returned"}
    /\ ran \subseteq {"parse"}
    /\ Returned => Len(result) = 1 /\ result[1].type = "syntax-error"

C1_Witness == Returned /\ ~doc.ok /\ doc.hasMark /\ Len(result) = 1

\* C2: getYamlErrors never throws: no call ends with an exception.
C2_NeverThrows == pc # "thrown"

\* C3: a parsed root that is no mapping (empty document, scalar, list)
\* returns exactly one structure diagnostic at line 1, and neither the schema
\* validation nor the additional validations are entered.
C3_NonMappingRoot ==
  doc.ok /\ doc.value.t # "object" /\ pc \notin {"parse", "structure"} =>
    /\ Returned
    /\ Len(result) = 1 /\ result[1].type = "structure" /\ result[1].line = 1
    /\ ran = {"parse", "structure"}

SameMessageLineColumn(list, d) ==
  {k \in Positions(list) :
     /\ list[k].message = d.message
     /\ list[k].line = d.line
     /\ list[k].column = d.column}

C6_SortedByLine ==
  Returned =>
    \A i, j \in Positions(result) :
      i < j => LineOrZero(result[i]) <= LineOrZero(result[j])

C6_Witness ==
  /\ Returned /\ "dedup" \in ran
  /\ \E i, j \in Positions(errors) : i < j /\ errors[i].line > errors[j].line

\* C7: removeDuplicateErrors applied to its own output returns that output.
C7_DedupIdempotent == stage = "twice" => twice = once

C7_Witness == stage = "twice" /\ Len(once) >= 2 /\ Len(once) < Len(input)

\* C8: every job whose name the schema validates and that has no runs-on
\* gets a runner-label diagnostic naming it.
C8_RunnerLabelNamesJob ==
  Returned /\ IsWorkflow =>
    \A i \in Entries(DocJobs) :
      (/\ DocJobs.items[i].t = "object"
       /\ MatchesJobName(DocJobs.keys[i])
       /\ ~HasKey(DocJobs.items[i], S_runs_on))
      => \E k \in Positions(result) :
           /\ result[k].type = "runner-label"
           /\ result[k].message.a = DocJobs.keys[i]

\* C9: every job without a steps key or with an empty steps list gets a
\* structure diagnostic naming it.
C9_StructureForJobWithoutSteps ==
  Returned /\ IsWorkflow =>
    \A i \in Entries(DocJobs) :
      (/\ DocJobs.items[i].t = "object"
       /\ \/ ~HasKey(DocJobs.items[i], S_steps)
          \/ Get(DocJobs.items[i], S_steps) = Arr(<<>>))
      => \E k \in Positions(result) :
           /\ result[k].type = "structure"
           /\ result[k].message.a = DocJobs.keys[i]

\* the steps of job i of the document
StepsOfJob(i) == Get(DocJobs.items[i], S_steps)

\* C10: for every step (index s, from 0) of a job that has both uses and run,
\* the call returns a structure diagnostic naming step s + 1 and the job.
C10_StructureForUsesAndRun ==
  IsWorkflow /\ pc \in {"returned", "thrown"} =>
    \A i \in Entries(DocJobs) :
      \A s \in 0..(Len(StepsOfJob(i).items) - 1) :
        (/\ HasKey(StepsOfJob(i).items[s + 1], S_uses)
         /\ HasKey(StepsOfJob(i).items[s + 1], S_run))
        => /\ Returned
           /\ \E k \in Positions(result) :
                /\ result[k].type = "structure"
                /\ result[k].message.a = DocJobs.keys[i]
                /\ result[k].message.n = s + 1

\* C11: a mapping document without the key on returns a list with exactly
\* one missing-field diagnostic of path on.
C11_OneMissingOn ==
  IsWorkflow /\ ~HasKey(doc.value, S_on) /\ pc \in {"returned", "thrown"} =>
    /\ Returned
    /\ Cardinality({k \in Positions(result) :
                      result[k].type = "missing-field" /\ result[k].path = S_on}) = 1

\* a string field of the step holds the fragment github.event.pull_request.title
HasTitleFragment(step) ==
  \E f \in 1..Len(step.items) :
    step.items[f].t = "string" /\ Includes(step.items[f].s, S_prTitle)

\* C12: for every step with a string field holding the fragment
\* github.event.pull_request.title, the call returns exactly one expression
\* diagnostic, a warning, whose path is in that step.
C12_ExpressionWarning ==
  Returned /\ IsWorkflow =>
    \A i \in Entries(DocJobs) :
      \A s \in 0..(Len(StepsOfJob(i).items) - 1) :
        HasTitleFragment(StepsOfJob(i).items[s + 1])
        => Cardinality({k \in Positions(result) :
              /\ result[k].type = "expression"
              /\ result[k].severity = "warning"
              /\ StartsWith(result[k].path,
                            S_jobsDot \o DocJobs.keys[i] \o <<".">> \o S_stepsDot
                              \o NumToStr(s))}) = 1

\* the step uses the scanning action and its with block names no product URL
UsesScanWithoutCredentials(step) ==
  /\ Get(step, S_uses).t = "string"
  /\ StartsWith(Get(step, S_uses).s, S_scanPrefix)
  /\ \A f \in 1..Len(Get(step, S_with).keys) :
       Get(step, S_with).keys[f] \in {S_github_token}

\* C13: a document with a step that uses the scanning action without any
\* credentials returns a configuration diagnostic asking for a product URL
\* and token.
C13_ConfigurationForScanStep ==
  Returned /\ IsWorkflow =>
    \A i \in Entries(DocJobs) :
      \A s \in 1..Len(StepsOfJob(i).items) :
        UsesScanWithoutCredentials(StepsOfJob(i).items[s])
        => \E k \in Positions(result) :
             /\ result[k].type = "configuration"
             /\ result[k].message.id = "Provide at least one of the product URL"

Ended == calls \o (IF pc \in {"returned", "thrown"} THEN <<Outcome>> ELSE <<>>)

\* C15: two calls with the same document end the same way, with the same
\* list, whatever calls came before or in between.
C15_SameDocumentSameList ==
  \A i, j \in Positions(Ended) :
    Ended[i].doc = Ended[j].doc =>
      Ended[i].pc = Ended[j].pc /\ Ended[i].result = Ended[j].result

C15_Witness ==
  /\ Len(Ended) = 3
  /\ Ended[1].doc = Ended[3].doc /\ Ended[2].doc # Ended[1].doc
  /\ Ended[1].pc = "returned" /\ Ended[2].pc = "returned"
  /\ Len(Ended[1].result) >= 2 /\ Ended[2].result # <<>>

(***************************************************************************)
(* Properties of the session manager, checked under SpecSession.           *)
(***************************************************************************)

\* a warning or expiration timer has just run its callback
TimeoutFired ==
  last.op = "timer" /\ last.timer.kind \in {"warning", "expiration"}

\* C16: once extendSession has recomputed expiresAt, no warning or
\* expiration callback that was scheduled before that extension fires: every
\* such callback that runs was scheduled after the latest extension.
C16_SupersededCancelled ==
  TimeoutFired => last.timer.gen = last.before.extensions

\* the expiration timer or the periodic check has just run on a session that
\* was valid and whose expiration time had been reached
ExpiryHandled ==
  /\ last.op = "timer"
  /\ last.timer.kind \in {"expiration", "periodic"}
  /\ ~last.before.sessionInfo.null
  /\ last.before.isInitialized
  /\ last.before.sessionInfo.isValid
  /\ now >= last.before.sessionInfo.expiresAt

\* C17: when the expiration time of a valid session is reached, the session
\* becomes invalid, the periodic check is stopped, and every expired callback
\* registered at that moment is invoked.
C17_ExpiryNotifies ==
  ExpiryHandled =>
    /\ ~mgr.sessionInfo.isValid
    /\ \A t \in mgr.timers : t.kind # "periodic"
    /\ \A c \in last.before.expiredCallbacks :
         mgr.expired[c] = last.before.expired[c] + 1

\* the timers of the session: the periodic and hourly intervals and the
\* warning and expiration timeouts
SessionTimers ==
  {t \in mgr.timers : t.kind \in {"periodic", "hourly", "warning", "expiration"}}

\* C18: right after invalidateSession on an initialized session the session
\* is invalid and no periodic, hourly, warning or expiration timer remains
\* scheduled.
C18_InvalidatedAndQuiet ==
  (last.op = "invalidateSession" /\ last.before.isInitialized) =>
    /\ ~mgr.sessionInfo.isValid
    /\ SessionTimers = {}

\* C19: right after clearSession, sessionInfo is null, isInitialized is
\* false, the warning and expired callback sets are empty, and no periodic,
\* hourly, warning, expiration or activity-throttle timer is pending.
C19_Cleared ==
  last.op = "clearSession" =>
    /\ mgr.sessionInfo.null
    /\ ~mgr.isInitialized
    /\ mgr.warningCallbacks = {}
    /\ mgr.expiredCallbacks = {}
    /\ SessionTimers = {}
    /\ \A t \in mgr.timers : t.kind # "throttle"

\* the timeout of the claim C20: the configured one when it lies in
\* (0, 24 hours], and 30 minutes otherwise
ClaimedTimeout ==
  IF env.timeoutMinutes > 0 /\ env.timeoutMinutes <= 24 * 60
  THEN env.timeoutMinutes * 60 * 1000
  ELSE 30 * 60 * 1000

TimersOfKind(kind) == {t \in mgr.timers : t.kind = kind}

LogoutForced ==
  /\ mgr.sessionInfo.null
  /\ ~mgr.isInitialized
  /\ \E t \in mgr.timers : t.kind = "redirect" /\ t.id >= last.before.nextTimer

\* the hourly timer has just run on an initialized session
HourlyTick ==
  /\ last.op = "timer"
  /\ last.timer.kind = "hourly"
  /\ last.before.isInitialized
  /\ ~last.before.sessionInfo.null

\* C21: an hourly tick on an initialized session runs the token validation:
\* logout is forced if the session is at least 8 hours old or the registered
\* callback answers false or rejects, and the session is extended if the
\* callback answers true.
C21_HourlyValidates ==
  HourlyTick =>
    LET old == now - last.before.sessionInfo.createdAt >= MAX_SESSION_DURATION
        answer == last.before.tokenValidationCallback
    IN  /\ (old \/ answer \in {"false", "rejects"}) => LogoutForced
        /\ (~old /\ answer = "true") => mgr.extensions = last.before.extensions + 1

\* a timer has just shown the warning
WarningShown ==
  /\ last.op = "timer"
  /\ ~last.before.sessionInfo.warningShown
  /\ mgr.sessionInfo.warningShown

\* no step invokes a callback that was unsubscribed before it
UnsubscribedSilent ==
  /\ \A c \in last.before.unsubscribedWarning : mgr.warned[c] = last.before.warned[c]
  /\ \A c \in last.before.unsubscribedExpired : mgr.expired[c] = last.before.expired[c]

\* C22: a callback whose unsubscribe function has been called is not invoked
\* by a later warning or expiration, and the subscribers that remain are
\* notified by it.
C22_Unsubscribe ==
  /\ UnsubscribedSilent
  /\ (WarningShown /\ last.before.unsubscribedWarning # {}) =>
       \A c \in last.before.warningCallbacks : mgr.warned[c] = last.before.warned[c] + 1
  /\ (ExpiryHandled /\ last.before.unsubscribedExpired # {}) =>
       \A c \in last.before.expiredCallbacks : mgr.expired[c] = last.before.expired[c] + 1

\* before the last step the session was initialized and at least 8 hours old
WasOld ==
  /\ last.before.isInitialized
  /\ ~last.before.sessionInfo.null
  /\ now - last.before.sessionInfo.createdAt >= MAX_SESSION_DURATION

\* C29: on a session that is at least 8 hours old, isSessionValid returns
\* false and forces the logout, and extendSession
\* forces the logout and does not move expiresAt.
C29_EightHourLimit ==
  /\ (last.op = "isSessionValid" /\ WasOld) =>
       ~isSessionValidResult(last.before) /\ LogoutForced
  /\ (last.op = "extendSession" /\ WasOld) =>
       LogoutForced /\ mgr.extensions = last.before.extensions

\* isSessionValid is called on a session of 8 hours that has not expired
C29_Witness ==
  /\ last.op = "isSessionValid"
  /\ WasOld
  /\ last.before.sessionInfo.isValid
  /\ now < last.before.sessionInfo.expiresAt

Handlers == {"handleStepClick", "handlePrevious", "handleNext"}

\* C25: currentStep is one of 1, 2, 3 and 4, whatever the step parameter of
\* the URL and the saved step were, and after every handler and popstate.
C25_StepInRange == ~wiz.currentStep.nan /\ wiz.currentStep.v \in 1..4

C27_NoOrganizations ==
  (wlast.op \in Handlers /\ NoOrganizations(wlast.before)) => wiz = wlast.before

\* handlePrevious is called on step 3 with an empty list and nothing pending
C27_Witness ==
  /\ wlast.op = "handlePrevious"
  /\ wlast.before.organizations = "empty"
  /\ StrictEq(wlast.before.currentStep, Number(3))
  /\ ~wlast.before.isNavigating

\* C28: when the save of the editor fails on step 3, the handler saves no
\* version and moves no step, and once it has finished isNavigating is false.
C28_FailedSave ==
  /\ (/\ wlast.op \in Handlers
      /\ StrictEq(wlast.before.currentStep, Number(3))
      /\ wlast.before.editor
      /\ wlast.saved # "true") =>
       /\ wiz.versions = wlast.before.versions
       /\ wiz.currentStep = wlast.before.currentStep
       /\ \A p \in wiz.pending \ wlast.before.pending : ~p.ok
  /\ (wlast.op = "resume" /\ ~wlast.resumed.ok) =>
       /\ wiz.versions = wlast.before.versions
       /\ wiz.currentStep = wlast.before.currentStep
       /\ ~wiz.isNavigating

\* a handler whose save failed on step 3 has finished
C28_Witness ==
  /\ wlast.op = "resume"
  /\ ~wlast.resumed.ok
  /\ StrictEq(wiz.currentStep, Number(3))
  /\ wiz.organizations = "some"

S_con_yml == <<"c", "o", "n">> \o S_yml

\* C24: for a name made of a reserved device name and .yml or .yaml the
\* validator reports a reserved error and the corrector returns the stem,
\* -workflow and the extension; con.yml becomes con-workflow.yml.
C24_ReservedName ==
  /\ (/\ fstage = "done"
      /\ ToLowerCase(StemOf(filename)) \in ReservedNames
      /\ ExtensionOf(filename) # <<>>) =>
       /\ "reserved" \in reported
       /\ corrected = StemOf(filename) \o S_workflowSuffix \o ExtensionOf(filename)
  /\ (fstage = "done" /\ filename = S_con_yml) =>
       corrected = <<"c","o","n","-","w","o","r","k","f","l","o","w",".","y","m","l">>

\* con.yml was validated and corrected
C24_Witness ==
  /\ fstage = "done"
  /\ filename = S_con_yml
  /\ "reserved" \in reported
  /\ "reserved" \notin reportedAfter

WarningNotified == \E c \in Callbacks : mgr.warned[c] # last.before.warned[c]

\* C32: warning callbacks are invoked only on a valid session with at least
\* one minute left whose warning was not yet shown, each subscriber once, and
\* the warning then counts as shown until initializeSession or extendSession
\* resets the expiry; so a second threshold reached in between notifies nobody.
C32_WarnedOnce ==
  /\ WarningNotified =>
       /\ ~last.before.sessionInfo.null
       /\ last.before.sessionInfo.isValid
       /\ last.before.sessionInfo.expiresAt - now >= 60 * 1000
       /\ ~last.before.sessionInfo.warningShown
       /\ mgr.sessionInfo.warningShown
       /\ \A c \in Callbacks :
            mgr.warned[c] = last.before.warned[c]
                              + (IF c \in last.before.warningCallbacks THEN 1 ELSE 0)
  /\ (/\ ~last.before.sessionInfo.null
      /\ last.before.sessionInfo.warningShown
      /\ ~mgr.sessionInfo.null
      /\ last.op # "initializeSession"
      /\ mgr.extensions = last.before.extensions) =>
       mgr.sessionInfo.warningShown

\* the warning timer or the periodic check reaches the threshold on a valid
\* session whose subscribers were already warned
C32_Witness ==
  /\ last.op = "timer"
  /\ last.timer.kind \in {"warning", "periodic"}
  /\ last.before.isInitialized
  /\ ~last.before.sessionInfo.null
  /\ last.before.sessionInfo.isValid
  /\ last.before.sessionInfo.warningShown
  /\ last.before.warningCallbacks = Callbacks
  /\ getMinutesRemaining(last.before) > 0
  /\ getMinutesRemaining(last.before) <= Max(env.warningMinutes, 1)
  /\ \A c \in Callbacks : mgr.warned[c] = 1

\* the page has become visible with an initialized session younger than 8 hours
BecameVisible ==
  /\ last.op = "visibilitychange"
  /\ ~last.before.isActive
  /\ mgr.isActive
  /\ last.before.isInitialized
  /\ ~last.before.sessionInfo.null
  /\ now - last.before.sessionInfo.createdAt < MAX_SESSION_DURATION

\* the session has passed its expiry, or the user was inactive for longer
\* than the configured timeout
Overdue ==
  \/ now >= last.before.sessionInfo.expiresAt
  \/ now - last.before.lastUserActivity > env.timeoutMinutes * 60 * 1000

\* C33: when the page becomes visible with an initialized session younger
\* than 8 hours, an overdue session is made invalid and keeps its expiresAt,
\* and any other session is extended from now.
C33_VisibleAgain ==
  BecameVisible =>
    IF Overdue
    THEN /\ ~mgr.sessionInfo.isValid
         /\ mgr.extensions = last.before.extensions
         /\ mgr.sessionInfo.expiresAt = last.before.sessionInfo.expiresAt
    ELSE /\ mgr.extensions = last.before.extensions + 1
         /\ mgr.sessionInfo.expiresAt
              = now + Min(env.timeoutMinutes * 60 * 1000, 24 * 60 * 60 * 1000)
         /\ mgr.sessionInfo.lastActivity = now

\* the page becomes visible at the expiry of a session that was still valid
C33_Witness ==
  /\ BecameVisible
  /\ Overdue
  /\ last.before.sessionInfo.isValid
  /\ ~mgr.sessionInfo.isValid

\* the last segment of path that is a key, not an index
LastKeySegment(path) ==
  LET keys == SelectSeq(Split(path, "."), LAMBDA p : p # <<>> /\ ~IsIndexPart(p))
  IN  IF keys = <<>> THEN S_undefined ELSE keys[Len(keys)]

\* the lines of the document that are neither blank nor comments and hold
\* key followed by a colon
KeyLines(lines, key) ==
  {i \in 1..Len(lines) :
     /\ Trim(lines[i]) # <<>>
     /\ ~StartsWith(Trim(lines[i]), <<"#">>)
     /\ Includes(lines[i], key \o <<":">>)}

\* C34: every entry of the location map has the line of the first line that
\* is neither blank nor a comment and holds the last key segment of its path
\* followed by a colon, and the column where that text begins; it has line 1
\* and column 1 when there is no such line.
C34_FirstKeyLine ==
  \A p \in DOMAIN yamlMap :
    LET at == KeyLines(doc.lines, LastKeySegment(p))
    IN  IF at = {} THEN yamlMap[p].line = 1 /\ yamlMap[p].column = 1
        ELSE LET i == CHOOSE k \in at : \A j \in at : k <= j
             IN  /\ yamlMap[p].line = i
                 /\ yamlMap[p].column
                      = IndexOf(doc.lines[i], LastKeySegment(p) \o <<":">>) + 1

====
